---- MODULE Spec2Model ----
(***************************************************************************)
(* Model of the market-data pipeline of Trading_RealTime_Data.             *)
(*                                                                         *)
(* Part 1: WebSocketConnector (src/data_collector/websocket_connector.py). *)
(* The connector runs under asyncio: start() connects, then creates the    *)
(* receive task and the health-check task; stop() may be called by the     *)
(* owner at any time.  Every `await` is a suspension point, so each action *)
(* below is the code that runs between two awaits of one coroutine.        *)
(*                                                                         *)
(* Time is kept as two ages, which is all the code reads of the clock:     *)
(*   msg_age = time.time() - last_message_time   (seconds)                 *)
(*   uptime  = (time.time() - start_time) / 1800 (half hours)              *)
(* Each age advances in steps of its own threshold and saturates one step  *)
(* above it, so each comparison the code makes is met below, at and above. *)
(***************************************************************************)
EXTENDS Integers, Sequences, FiniteSets, TLC

\* ---------------------------------------------------------------- bounds
MaxAttempts == 2      \* max_reconnect_attempts is drawn from 1..MaxAttempts
MaxBackoffCfg == 3    \* the configured max_backoff
MaxSessions == 3      \* network sessions opened in one run of Spec
MaxMessages == 2      \* frames received in one run of MsgSpec
MaxChecks == 3        \* _check_data_integrity calls in one run of ReconSpec
MaxTradeIds == 2      \* capacity of the dedup set (max_trade_ids, 1000 in the source)
MaxTimestamp == 2     \* timestamps are drawn from 0..MaxTimestamp
MaxValidations == 4   \* validate_* calls in one run of ValSpec
CheckDepth == 1       \* order-book levels the validator inspects (5 in the source)
NormWindow == 2       \* length of the normalizer's recent_trades (100 in the source)
StoreCapacity == 2    \* max_trades and max_orderbooks of the Hot Store
TtlCfg == 1           \* ttl of the Hot Store, in the unit of the timestamps
MaxNow == 3           \* the wall clock runs from 0 to MaxNow
MaxAdds == 3          \* add_trade and add_orderbook calls in one run of StoreSpec
MaxEngineCalls == 4   \* update_trade and update_orderbook calls in one run of EngineSpec
MaxBotCalls == 3      \* on_state_update calls in one run of BotSpec
MomentumWindow == 1   \* the 5 s momentum window, in the unit of the timestamps
VolumeWindow1m == 2   \* the 1 min volume window, in the unit of the timestamps
VolumeWindow5m == 3   \* the 5 min volume window, in the unit of the timestamps
TradeHistoryLen == 3  \* length of the manager's trade_history (5000 in the source)
PriceHistoryLen == 2  \* length of the manager's price_history (100 in the source)
LargeHistoryLen == 2  \* length of the manager's large_trade_history (100 in the source)
MaxStateCalls == 4    \* calls of the MarketStateManager in one run of StateSpec

\* ------------------------------------------------------ program constants
STALE_SEC == 60                  \* health check: now - last_message_time > 60
SESSION_LIMIT_HALF_HOURS == 47   \* (now - start_time) / 3600 >= 23.5
INITIAL_BACKOFF == 1             \* ws_initial_backoff_sec

NoSession == 0

ConnectionState == {"disconnected", "connecting", "connected", "reconnecting", "failed"}

Tasks == {"recv", "health"}
Procs == {"start", "stop", "recv", "health"}

\* Kinds of inbound text frame, by what _process_message does with them.
MsgKinds == {"trade", "depth", "other_stream", "no_stream", "no_data",
             "bad_json", "not_object"}
HandlerOutcomes == {"ok", "raise"}

VARIABLES
    max_reconnect_attempts, initial_backoff, max_backoff,   \* configuration
    current_backoff, reconnect_count,
    state, websocket, running,
    msg_age, uptime,
    total_messages, trade_count, orderbook_count, error_count,
    pc,             \* position of each coroutine
    recv_on,        \* the session the receive task's recv() was called on
    open_sessions,  \* sessions open on the network
    next_session,   \* id of the next session websockets.connect returns
    handler_calls,  \* history: number of on_message invocations
    delays,         \* history: backoff delays slept since the last successful connect
    exhausted,      \* history: _reconnect has refused for lack of budget
    last_recv,      \* history: how the recv() of this loop iteration ended
    session_budget, \* bound of the run: sessions the network grants
    message_budget, \* bound of the run: frames the network delivers
    check_budget    \* bound of the run: integrity checks of the reconciliation

\* DataReconciliation (src/core/data_reconciliation.py)
VARIABLES
    rec_session,        \* self.session: "none", "open" or "closed"
    rec_pc,             \* position of _reconciliation_loop
    total_checks, mismatch_count,
    last_rest_price, last_ws_price,     \* NoPrice stands for None
    rec_stopped,        \* history: stop() has been called
    rec_calls           \* history: number of _check_data_integrity calls

\* DataValidator (src/data_collector/data_validator.py)
VARIABLES
    recent_trade_ids,           \* the dedup set
    last_trade_timestamp, last_orderbook_timestamp,
    total_validated, total_errors,
    error_counts,               \* per ValidationErrorType
    val_pending,        \* the record KindSpec is about to validate
    val_last,           \* history: summary of the last validate_* call
    accepted_ids,       \* history: ids of the accepted trades, in order
    accepted_times,     \* history: timestamps of the accepted records, per type
    val_budget          \* bound of the run: validate_* calls

\* DataNormalizer, HotStorage, MarketStateManager and the driver DataPipeline
VARIABLES
    norm_recent_trades, cumulative_volume,      \* DataNormalizer
    trades, trade_index, latest_trade, total_trades_stored,     \* HotStorage
    orderbooks, orderbook_index, latest_orderbook, total_orderbooks_stored,
    now,                \* time.time() as the Hot Store reads it
    market_state,       \* MarketStateManager.state
    processed_trades, processed_orderbooks, validation_errors,  \* DataPipeline
    cb_pending,         \* history: on_state_update has been called and not returned
    cb_calls,           \* history: number of on_state_update invocations
    cb_arg,             \* history: arguments of the last on_state_update invocation
    cb_last,            \* history: how the last on_state_update invocation ended
    inserted_trades,    \* history: every trade passed to add_trade, in order
    store_budget        \* bound of the run: direct add_trade calls

\* SignalEngine (src/core/signal_engine_v1.py)
VARIABLES
    trade_history,      \* deque of (timestamp, amount_usdt, price)
    last_imbalance,     \* bid share of the last order book, as <<bid volume, total>>
    sig_last,           \* history: summary of the last update_orderbook call
    engine_calls,       \* history: number of update_trade / update_orderbook calls
    sig_budget          \* bound of the run: direct calls of the engine

\* TradingBot (src/main.py) and TradingBotV2 (src/main_v2.py)
VARIABLES
    bot_version,        \* "v1" for TradingBot, "v2" for TradingBotV2
    current_position,   \* "none", "LONG" or "SHORT"
    bot_pc,             \* "idle", or "verify" inside the await of verify_before_order
    bot_signal,         \* the entry signal _handle_entry_signal was called with
    bot_state,          \* the MarketState on_state_update was called with
    verify_last,        \* history: the last return of verify_before_order
    bot_last,           \* history: how the last on_state_update invocation ended
    bot_calls,          \* history: number of on_state_update invocations
    bot_entries,        \* history: number of times a position was opened
    bot_budget          \* bound of the run: direct on_state_update calls

\* MarketStateManager (src/core/market_state_manager.py); its state object is
\* market_state above
VARIABLES
    state_trade_history,    \* self.trade_history
    price_history,          \* self.price_history
    large_trade_history,    \* self.large_trade_history
    all_trades,         \* history: every trade given to update_from_trade since the reset
    msm_last,           \* history: the last update_* call and its argument
    held,               \* what a consumer holds from its last get_* call
    msm_calls,          \* history: number of calls of the manager
    msm_budget          \* bound of the run: direct calls of the manager

cfg_vars == <<max_reconnect_attempts, initial_backoff, max_backoff>>
conn_vars == <<current_backoff, reconnect_count, state, websocket, running>>
time_vars == <<msg_age, uptime>>
stat_vars == <<total_messages, trade_count, orderbook_count, error_count>>
hist_vars == <<handler_calls, delays, exhausted, last_recv>>
bound_vars == <<session_budget, message_budget, check_budget>>
connector_vars == <<cfg_vars, bound_vars, conn_vars, time_vars, stat_vars, pc, recv_on,
                    open_sessions, next_session, hist_vars>>
recon_vars == <<rec_session, rec_pc, total_checks, mismatch_count, last_rest_price,
                last_ws_price, rec_stopped, rec_calls>>
validator_state == <<recent_trade_ids, last_trade_timestamp, last_orderbook_timestamp,
                     total_validated, total_errors, error_counts>>
validator_vars == <<validator_state, val_pending, val_last, accepted_ids, accepted_times,
                    val_budget>>
normalizer_vars == <<norm_recent_trades, cumulative_volume>>
store_vars == <<trades, trade_index, latest_trade, total_trades_stored,
                orderbooks, orderbook_index, latest_orderbook, total_orderbooks_stored>>
driver_vars == <<processed_trades, processed_orderbooks, validation_errors>>
callback_vars == <<cb_pending, cb_calls, cb_arg, cb_last>>
pipeline_vars == <<normalizer_vars, store_vars, now, market_state, driver_vars,
                   callback_vars, inserted_trades, store_budget>>
engine_vars == <<trade_history, last_imbalance, sig_last, engine_calls, sig_budget>>
bot_vars == <<bot_version, current_position, bot_pc, bot_signal, bot_state, verify_last,
              bot_last, bot_calls, bot_entries, bot_budget>>
manager_data == <<state_trade_history, price_history, large_trade_history, all_trades,
                  msm_last>>
manager_vars == <<manager_data, held, msm_calls, msm_budget>>
app_vars == <<engine_vars, bot_vars, manager_vars>>
vars == <<connector_vars, recon_vars, validator_vars, pipeline_vars, app_vars>>

\* What an action of the connector, of the reconciliation, of the validator
\* or of the Hot Store leaves alone.
non_connector_vars == <<recon_vars, validator_vars, pipeline_vars, app_vars>>
non_recon_vars == <<connector_vars, validator_vars, pipeline_vars, app_vars>>
non_validator_vars == <<connector_vars, recon_vars, pipeline_vars, app_vars>>
non_store_vars == <<connector_vars, recon_vars, validator_vars, normalizer_vars,
                    market_state, driver_vars, callback_vars, app_vars>>

Min(a, b) == IF a <= b THEN a ELSE b

\* ------------------------------------------------------------ __init__
ConnInit ==
    /\ max_reconnect_attempts \in 1..MaxAttempts
    /\ initial_backoff = INITIAL_BACKOFF
    /\ max_backoff = MaxBackoffCfg
    /\ current_backoff = initial_backoff
    /\ reconnect_count = 0
    /\ state = "disconnected"
    /\ websocket = NoSession
    /\ running = FALSE
    /\ msg_age = 0
    /\ uptime = 0
    /\ total_messages = 0
    /\ trade_count = 0
    /\ orderbook_count = 0
    /\ error_count = 0
    /\ pc = [p \in Procs |-> CASE p = "start" -> "init"
                               [] p = "stop" -> "idle"
                               [] OTHER -> "none"]
    /\ recv_on = NoSession
    /\ open_sessions = {}
    /\ next_session = 1
    /\ handler_calls = 0
    /\ delays = <<>>
    /\ exhausted = FALSE
    /\ last_recv = "none"

\* ------------------------------------------------------------ _connect
\* websockets.connect returned a session: lines 124-138.
connect_ok ==
    /\ next_session <= session_budget
    /\ websocket' = next_session
    /\ open_sessions' = open_sessions \cup {next_session}
    /\ next_session' = next_session + 1
    /\ state' = "connected"
    /\ uptime' = 0
    /\ msg_age' = 0
    /\ current_backoff' = initial_backoff
    /\ reconnect_count' = 0
    /\ delays' = <<>>

\* websockets.connect raised: lines 140-143.
connect_failed ==
    /\ state' = "failed"
    /\ UNCHANGED <<websocket, open_sessions, next_session, uptime, msg_age,
                   current_backoff, reconnect_count, delays>>

\* ---------------------------------------------------------- _reconnect
next_backoff(backoff, cap) == Min(backoff * 2, cap)

budget_left(count, limit) == count < limit

\* _reconnect up to its await asyncio.sleep(current_backoff): lines 147-162.
\* When the budget is used up it returns False at once and the caller goes on.
reconnect_begin(p) ==
    IF budget_left(reconnect_count, max_reconnect_attempts)
    THEN /\ state' = "reconnecting"
         /\ reconnect_count' = reconnect_count + 1
         /\ delays' = Append(delays, current_backoff)
         /\ pc' = [pc EXCEPT ![p] = "backoff"]
         /\ UNCHANGED exhausted
    ELSE /\ state' = "failed"
         /\ exhausted' = TRUE
         /\ pc' = [pc EXCEPT ![p] = "top"]
         /\ UNCHANGED <<reconnect_count, delays>>

\* _trigger_reconnect up to its first await: lines 189-195.  close() is called
\* on whatever self.websocket holds now; with no session _reconnect runs at once.
trigger_reconnect(p) ==
    IF websocket # NoSession
    THEN /\ open_sessions' = open_sessions \ {websocket}
         /\ pc' = [pc EXCEPT ![p] = "closing"]
         /\ UNCHANGED <<state, reconnect_count, delays, exhausted>>
    ELSE /\ reconnect_begin(p)
         /\ UNCHANGED open_sessions

\* close() returned inside _trigger_reconnect; _reconnect starts.
ReconnectBegin(p) ==
    /\ pc[p] = "closing"
    /\ reconnect_begin(p)
    /\ UNCHANGED <<non_connector_vars, cfg_vars, bound_vars, current_backoff, websocket, running, time_vars, stat_vars,
                   recv_on, open_sessions, next_session, handler_calls, last_recv>>

\* The backoff sleep is over: lines 165-167 and _connect up to its await.
BackoffWake(p) ==
    /\ pc[p] = "backoff"
    /\ current_backoff' = next_backoff(current_backoff, max_backoff)
    /\ state' = "connecting"
    /\ pc' = [pc EXCEPT ![p] = "connecting"]
    /\ UNCHANGED <<non_connector_vars, cfg_vars, bound_vars, reconnect_count, websocket, running, time_vars, stat_vars,
                   recv_on, open_sessions, next_session, hist_vars>>

ReconnectConnectOK(p) ==
    /\ pc[p] = "connecting"
    /\ connect_ok
    /\ pc' = [pc EXCEPT ![p] = "top"]
    /\ UNCHANGED <<non_connector_vars, cfg_vars, bound_vars, running, stat_vars, recv_on, handler_calls, exhausted, last_recv>>

ReconnectConnectFailed(p) ==
    /\ pc[p] = "connecting"
    /\ connect_failed
    /\ pc' = [pc EXCEPT ![p] = "top"]
    /\ UNCHANGED <<non_connector_vars, cfg_vars, bound_vars, running, stat_vars, recv_on, handler_calls, exhausted, last_recv>>

\* -------------------------------------------------------- _health_check
\* Mutant: the threshold itself counts as stale.
is_stale_at_threshold(age) == age >= STALE_SEC

is_stale(age) == age > STALE_SEC

\* while self.running: ... await asyncio.sleep(5)
HealthLoopTop ==
    /\ pc["health"] = "top"
    /\ pc' = [pc EXCEPT !["health"] = IF running THEN "sleep" ELSE "done"]
    /\ UNCHANGED <<non_connector_vars, cfg_vars, bound_vars, conn_vars, time_vars, stat_vars, recv_on, open_sessions,
                   next_session, hist_vars>>

\* The 5 s sleep is over: lines 174-185.
HealthCheck ==
    /\ pc["health"] = "sleep"
    /\ IF state = "connected" /\ is_stale(msg_age)
       THEN trigger_reconnect("health")
       ELSE /\ pc' = [pc EXCEPT !["health"] = "top"]
            /\ UNCHANGED <<state, reconnect_count, delays, exhausted, open_sessions>>
    /\ UNCHANGED <<non_connector_vars, cfg_vars, bound_vars, current_backoff, websocket, running, time_vars, stat_vars,
                   recv_on, next_session, handler_calls, last_recv>>

\* ----------------------------------------------------- _receive_messages
\* Mutant: the session is renewed only after the limit has been passed.
session_expired_late(up) == up > SESSION_LIMIT_HALF_HOURS

session_expired(up) == up >= SESSION_LIMIT_HALF_HOURS

\* Loop head up to the first await of the iteration: lines 199-216.
RecvLoopTop ==
    /\ pc["recv"] = "top"
    /\ IF ~running
       THEN /\ pc' = [pc EXCEPT !["recv"] = "done"]
            /\ UNCHANGED <<state, reconnect_count, delays, exhausted, open_sessions, recv_on>>
       ELSE IF state # "connected" \/ websocket = NoSession
       THEN /\ pc' = [pc EXCEPT !["recv"] = "idle"]
            /\ UNCHANGED <<state, reconnect_count, delays, exhausted, open_sessions, recv_on>>
       ELSE IF session_expired(uptime)
       THEN /\ trigger_reconnect("recv")
            /\ UNCHANGED recv_on
       ELSE /\ recv_on' = websocket
            /\ pc' = [pc EXCEPT !["recv"] = "recv"]
            /\ UNCHANGED <<state, reconnect_count, delays, exhausted, open_sessions>>
    /\ UNCHANGED <<non_connector_vars, cfg_vars, bound_vars, current_backoff, websocket, running, time_vars, stat_vars,
                   next_session, handler_calls>>
    /\ last_recv' = "none"

\* await asyncio.sleep(1) is over (lines 202 and 234).
RecvIdleWake ==
    /\ pc["recv"] = "idle"
    /\ pc' = [pc EXCEPT !["recv"] = "top"]
    /\ UNCHANGED <<non_connector_vars, cfg_vars, bound_vars, conn_vars, time_vars, stat_vars, recv_on, open_sessions,
                   next_session, hist_vars>>

\* Mutant: the timeout falls through to the generic handler of lines 231-234.
RecvTimeoutAsError ==
    /\ pc["recv"] = "recv"
    /\ recv_on \in open_sessions
    /\ error_count' = error_count + 1
    /\ pc' = [pc EXCEPT !["recv"] = "idle"]
    /\ last_recv' = "timeout"
    /\ UNCHANGED <<non_connector_vars, cfg_vars, bound_vars, conn_vars, time_vars, total_messages, trade_count,
                   orderbook_count, recv_on, open_sessions, next_session, handler_calls,
                   delays, exhausted>>

\* asyncio.TimeoutError: lines 223-225.
RecvTimeout ==
    /\ pc["recv"] = "recv"
    /\ recv_on \in open_sessions
    /\ pc' = [pc EXCEPT !["recv"] = "top"]
    /\ UNCHANGED <<non_connector_vars, cfg_vars, bound_vars, conn_vars, time_vars, stat_vars, recv_on, open_sessions,
                   next_session, handler_calls, delays, exhausted>>
    /\ last_recv' = "timeout"

\* ConnectionClosed: lines 227-229.  The session recv() waits on was closed by
\* the peer or the network now, or by a close() of this program before.
RecvConnectionClosed ==
    /\ pc["recv"] = "recv"
    /\ IF websocket # NoSession
       THEN /\ open_sessions' = open_sessions \ {websocket, recv_on}
            /\ pc' = [pc EXCEPT !["recv"] = "closing"]
            /\ UNCHANGED <<state, reconnect_count, delays, exhausted>>
       ELSE /\ reconnect_begin("recv")
            /\ open_sessions' = open_sessions \ {recv_on}
    /\ UNCHANGED <<non_connector_vars, cfg_vars, bound_vars, current_backoff, websocket, running, time_vars, stat_vars,
                   recv_on, next_session, handler_calls>>
    /\ last_recv' = "closed"

\* Any other exception out of recv(): lines 231-234.
RecvError ==
    /\ pc["recv"] = "recv"
    /\ recv_on \in open_sessions
    /\ error_count < message_budget
    /\ error_count' = error_count + 1
    /\ pc' = [pc EXCEPT !["recv"] = "idle"]
    /\ UNCHANGED <<non_connector_vars, cfg_vars, bound_vars, conn_vars, time_vars, total_messages, trade_count,
                   orderbook_count, recv_on, open_sessions, next_session, handler_calls, delays, exhausted>>
    /\ last_recv' = "error"

\* ------------------------------------------------------ _process_message
\* json.loads raises JSONDecodeError on invalid JSON; `"stream" not in data`
\* raises TypeError when the JSON value is a number, true, false or null.
decode_fails(kind) == kind \in {"bad_json", "not_object"}

lacks_field(kind) == kind \in {"no_stream", "no_data"}

\* Mutant: the handler is awaited for trade frames only.
handler_called_trades_only(kind) == kind = "trade"

\* Whether on_message is awaited for this frame: lines 249-257.
handler_called(kind) == kind \in {"trade", "depth"}

\* Mutant: a frame that cannot be decoded is not counted as an error.
process_errors_uncounted_decode(kind, outcome) ==
    IF handler_called(kind) /\ outcome = "raise" THEN 1 ELSE 0

\* The increment of error_count by _process_message: lines 262-267.
process_errors(kind, outcome) ==
    IF decode_fails(kind) THEN 1
    ELSE IF lacks_field(kind) THEN 0
    ELSE IF handler_called(kind) /\ outcome = "raise" THEN 1
    ELSE 0

\* recv() returned a frame: lines 217-221 and _process_message.
RecvMessage(kind, outcome) ==
    /\ pc["recv"] = "recv"
    /\ recv_on \in open_sessions
    /\ total_messages < message_budget
    /\ msg_age' = 0
    /\ total_messages' = total_messages + 1
    /\ trade_count' = trade_count + (IF ~decode_fails(kind) /\ kind = "trade" THEN 1 ELSE 0)
    /\ orderbook_count' = orderbook_count + (IF ~decode_fails(kind) /\ kind = "depth" THEN 1 ELSE 0)
    /\ handler_calls' = handler_calls + (IF handler_called(kind) THEN 1 ELSE 0)
    /\ error_count' = error_count + process_errors(kind, outcome)
    /\ pc' = [pc EXCEPT !["recv"] = "top"]
    /\ UNCHANGED <<non_connector_vars, cfg_vars, bound_vars, conn_vars, uptime, recv_on, open_sessions, next_session,
                   delays, exhausted>>
    /\ last_recv' = kind

\* ---------------------------------------------------------------- stop
\* stop() up to its await of close(): lines 294-300.
stop_body(p) ==
    /\ running' = FALSE
    /\ state' = "disconnected"
    /\ IF websocket # NoSession
       THEN /\ open_sessions' = open_sessions \ {websocket}
            /\ pc' = [pc EXCEPT ![p] = "closing"]
       ELSE /\ pc' = [pc EXCEPT ![p] = "returned"]
            /\ UNCHANGED open_sessions
    /\ UNCHANGED <<non_connector_vars, cfg_vars, bound_vars, current_backoff, reconnect_count, websocket, time_vars,
                   stat_vars, recv_on, next_session, hist_vars>>

\* The owner calls stop() (DataPipeline.stop), at any point after start().
StopCall ==
    /\ pc["stop"] = "idle"
    /\ pc["start"] # "init"
    /\ stop_body("stop")

\* close() returned: lines 304-311 only log.
StopReturn(p) ==
    /\ p \in {"start", "stop"}
    /\ pc[p] = "closing"
    /\ pc' = [pc EXCEPT ![p] = "returned"]
    /\ UNCHANGED <<non_connector_vars, cfg_vars, bound_vars, conn_vars, time_vars, stat_vars, recv_on, open_sessions,
                   next_session, hist_vars>>

\* ---------------------------------------------------------------- start
\* start() up to the await inside _connect: lines 271-275, 120-124.
Start ==
    /\ pc["start"] = "init"
    /\ running' = TRUE
    /\ state' = "connecting"
    /\ pc' = [pc EXCEPT !["start"] = "connecting"]
    /\ UNCHANGED <<non_connector_vars, cfg_vars, bound_vars, current_backoff, reconnect_count, websocket, time_vars,
                   stat_vars, recv_on, open_sessions, next_session, hist_vars>>

\* The initial connection succeeded; both tasks are created: lines 280-286.
StartConnectOK ==
    /\ pc["start"] = "connecting"
    /\ connect_ok
    /\ pc' = [pc EXCEPT !["start"] = "gather", !["recv"] = "top", !["health"] = "top"]
    /\ UNCHANGED <<non_connector_vars, cfg_vars, bound_vars, running, stat_vars, recv_on, handler_calls, exhausted, last_recv>>

\* The initial connection failed; start() returns: lines 275-277.
StartConnectFailed ==
    /\ pc["start"] = "connecting"
    /\ connect_failed
    /\ pc' = [pc EXCEPT !["start"] = "returned"]
    /\ UNCHANGED <<non_connector_vars, cfg_vars, bound_vars, running, stat_vars, recv_on, handler_calls, exhausted, last_recv>>

\* gather() returned because both tasks ended; finally: await self.stop().
StartGatherDone ==
    /\ pc["start"] = "gather"
    /\ pc["recv"] = "done"
    /\ pc["health"] = "done"
    /\ stop_body("start")

\* ------------------------------------------------------------ the clock
TickMessageAge ==
    /\ pc["start"] = "gather"
    /\ msg_age <= STALE_SEC
    /\ msg_age' = msg_age + STALE_SEC
    /\ UNCHANGED <<non_connector_vars, cfg_vars, bound_vars, conn_vars, uptime, stat_vars, pc, recv_on, open_sessions,
                   next_session, hist_vars>>

TickUptime ==
    /\ pc["start"] = "gather"
    /\ uptime < SESSION_LIMIT_HALF_HOURS
    /\ uptime' = uptime + SESSION_LIMIT_HALF_HOURS
    /\ UNCHANGED <<non_connector_vars, cfg_vars, bound_vars, conn_vars, msg_age, stat_vars, pc, recv_on, open_sessions,
                   next_session, hist_vars>>

\* ================================================== DataReconciliation
NoPrice == 0

\* Prices in tenths: 1000 and 1001 differ by less than 0.1 %, 1000 and 1003 by
\* 0.3 %, 1000 and 1006 by 0.6 %.
Prices == {1000, 1001, 1003, 1006}

Abs(x) == IF x < 0 THEN -x ELSE x

\* abs(rest_price - ws_price) / rest_price > 0.001: line 87.
is_mismatch(rest_price, ws_price) == Abs(rest_price - ws_price) * 1000 > rest_price

\* How the HTTP GET of _fetch_rest_ticker can end: a 200 with a lastPrice,
\* a 200 without one, another status, a timeout, any other error.
FetchOutcomes == {"ok", "bad_body", "status", "timeout", "error"}

\* __init__: lines 27-43.
ReconInit0 ==
    /\ rec_session = "none"
    /\ rec_pc = "none"
    /\ total_checks = 0
    /\ mismatch_count = 0
    /\ last_rest_price = NoPrice
    /\ last_ws_price = NoPrice
    /\ rec_stopped = FALSE
    /\ rec_calls = 0

\* start(): lines 45-51.
ReconStart ==
    /\ rec_pc = "none"
    /\ rec_session = "none"
    /\ rec_session' = "open"
    /\ rec_pc' = "sleep"
    /\ UNCHANGED <<non_recon_vars, total_checks, mismatch_count, last_rest_price, last_ws_price,
                   rec_stopped, rec_calls>>

\* stop(): lines 53-57.  It closes the session and does nothing else.
ReconStop ==
    /\ ~rec_stopped
    /\ rec_session' = IF rec_session = "open" THEN "closed" ELSE rec_session
    /\ rec_stopped' = TRUE
    /\ UNCHANGED <<non_recon_vars, rec_pc, total_checks, mismatch_count, last_rest_price, last_ws_price,
                   rec_calls>>

\* Mutant: the integrity check starts by clearing the Hot Store's ring buffer.
ReconWake_clearing_trades ==
    /\ rec_pc = "sleep"
    /\ rec_calls < check_budget
    /\ rec_calls' = rec_calls + 1
    /\ rec_pc' = IF rec_session = "open" THEN "fetch" ELSE "sleep"
    /\ trades' = <<>>
    /\ UNCHANGED <<connector_vars, validator_vars, app_vars, normalizer_vars, trade_index,
                   latest_trade, total_trades_stored, orderbooks, orderbook_index,
                   latest_orderbook, total_orderbooks_stored, now, market_state,
                   driver_vars, callback_vars, inserted_trades, store_budget>>
    /\ UNCHANGED <<rec_session, total_checks, mismatch_count, last_rest_price,
                   last_ws_price, rec_stopped>>

\* The interval sleep is over: _check_data_integrity is called and
\* _fetch_rest_ticker issues its GET (lines 63-64, 72, 119).  On a closed
\* session the GET raises at once, the fetch returns None and the check
\* returns (lines 74-76); the loop sleeps again.
ReconWake ==
    /\ rec_pc = "sleep"
    /\ rec_calls < check_budget
    /\ rec_calls' = rec_calls + 1
    /\ rec_pc' = IF rec_session = "open" THEN "fetch" ELSE "sleep"
    /\ UNCHANGED <<non_recon_vars, rec_session, total_checks, mismatch_count, last_rest_price,
                   last_ws_price, rec_stopped>>

\* The GET returned: lines 74-88 (what follows only logs).
ReconFetchReturn(outcome, price) ==
    /\ rec_pc = "fetch"
    /\ rec_session = "closed" => outcome = "error"
    /\ rec_pc' = "sleep"
    /\ IF outcome = "ok"
       THEN /\ last_rest_price' = price
            /\ total_checks' = total_checks + 1
            /\ mismatch_count' = mismatch_count +
                    (IF last_ws_price # NoPrice /\ is_mismatch(price, last_ws_price)
                     THEN 1 ELSE 0)
       ELSE UNCHANGED <<last_rest_price, total_checks, mismatch_count>>
    /\ UNCHANGED <<non_recon_vars, rec_session, last_ws_price, rec_stopped, rec_calls>>

\* Mutant: the threshold of the periodic check (0.1 %) is used before an order.
exceeds_order_threshold_as_warning(rest_price, ws_price) ==
    is_mismatch(rest_price, ws_price)

\* abs(rest_price - ws_price) / rest_price > 0.005: lines 154 and 157.
exceeds_order_threshold(rest_price, ws_price) ==
    Abs(rest_price - ws_price) * 1000 > 5 * rest_price

\* The fetches after which _fetch_rest_ticker returns None: lines 122-131.
FailedFetches == {"status", "timeout", "error"}

\* Mutant: without a reference price the order is let through.
verify_before_order_fail_open(ws_price, outcome, price) ==
    IF outcome \in FailedFetches
    THEN [type |-> "returned", accepted |-> TRUE, reference |-> NoPrice]
    ELSE IF outcome = "bad_body" THEN [type |-> "raised"]
    ELSE [type |-> "returned", accepted |-> ~exceeds_order_threshold(price, ws_price),
          reference |-> price]

\* verify_before_order, lines 137-169, once the GET of _fetch_rest_ticker has
\* ended with outcome: the pair it returns.  A body without lastPrice makes
\* line 153 raise KeyError.
verify_before_order(ws_price, outcome, price) ==
    IF outcome \in FailedFetches
    THEN [type |-> "returned", accepted |-> FALSE, reference |-> NoPrice]
    ELSE IF outcome = "bad_body" THEN [type |-> "raised"]
    ELSE [type |-> "returned", accepted |-> ~exceeds_order_threshold(price, ws_price),
          reference |-> price]

\* update_ws_price: line 133-135, called by the driver for every trade.
UpdateWsPrice(price) ==
    /\ last_ws_price' = price
    /\ UNCHANGED <<non_recon_vars, rec_session, rec_pc, total_checks, mismatch_count, last_rest_price,
                   rec_stopped, rec_calls>>

\* ======================================================= DataValidator
ValidationErrorType == {"null_value", "negative_price", "negative_quantity",
                        "invalid_timestamp", "out_of_order", "duplicate",
                        "empty_orderbook", "invalid_symbol"}
NoError == "none"       \* ValidationResult(is_valid=True)

\* Price and quantity arrive as text.  "" stands for a missing or empty field
\* (falsy in Python), "abc" for text float() rejects.
Texts == {"", "abc", "-1", "0", "5"}
is_parseable(text) == text \in {"-1", "0", "5", "7"}
float(text) == CASE text = "-1" -> -1
                 [] text = "0" -> 0
                 [] text = "5" -> 5
                 [] text = "7" -> 7

Timestamps == 0..MaxTimestamp
Symbols == {"BTCUSDT", "ETHUSDT"}
expected_symbols == {"BTCUSDT"}
max_trade_ids == MaxTradeIds
TradeIds == 1..(MaxTradeIds + 1)

Trades == [price : Texts, quantity : Texts, trade_time : Timestamps, symbol : Symbols,
           aggregate_trade_id : TradeIds]

\* An order-book level is [price, quantity]: a good one, one with price 0,
\* one with a negative quantity, one float() rejects.
Levels == {<<"5", "0">>, <<"0", "5">>, <<"5", "-1">>, <<"abc", "5">>}
LevelLists == UNION {[1..n -> Levels] : n \in 0..(CheckDepth + 1)}
OrderBooks == [bids : LevelLists, asks : LevelLists, event_time : Timestamps,
               symbol : Symbols]

SetMax(S) == CHOOSE x \in S : \A y \in S : y <= x
Max(a, b) == IF a >= b THEN a ELSE b

\* is_duplicate_trade: lines 183-185.
is_duplicate_trade(trade_id, ids) == trade_id \in ids

\* is_out_of_order_trade, is_out_of_order_orderbook: lines 187-193.
is_out_of_order(timestamp, last) == timestamp < last

\* Checks 1 to 5 of validate_trade, lines 56-104: the error type returned, or
\* NoError.  Both float() conversions run before either comparison.
validate_trade_error(trade, ids) ==
    IF trade.price = "" \/ trade.quantity = "" THEN "null_value"
    ELSE IF ~is_parseable(trade.price) \/ ~is_parseable(trade.quantity) THEN "null_value"
    ELSE IF float(trade.price) <= 0 THEN "negative_price"
    ELSE IF float(trade.quantity) <= 0 THEN "negative_quantity"
    ELSE IF trade.trade_time <= 0 THEN "invalid_timestamp"
    ELSE IF trade.symbol \notin expected_symbols THEN "invalid_symbol"
    ELSE IF is_duplicate_trade(trade.aggregate_trade_id, ids) THEN "duplicate"
    ELSE NoError

\* One level of the loops of lines 147-161: float() of both fields, then the
\* range test.
level_error(level) ==
    IF ~is_parseable(level[1]) \/ ~is_parseable(level[2]) THEN "null_value"
    ELSE IF float(level[1]) <= 0 \/ float(level[2]) < 0 THEN "negative_price"
    ELSE NoError

\* The loop over levels[:5]: the error of the first level that has one.
levels_error(levels) ==
    LET top == 1..Min(Len(levels), CheckDepth)
        bad == {i \in top : level_error(levels[i]) # NoError}
    IN IF bad = {} THEN NoError
       ELSE level_error(levels[CHOOSE i \in bad : \A j \in bad : i <= j])

\* Mutant: the timestamp is tested before the sides are tested for emptiness.
validate_orderbook_error_time_first(orderbook) ==
    IF orderbook.event_time <= 0 THEN "invalid_timestamp"
    ELSE IF orderbook.bids = <<>> \/ orderbook.asks = <<>> THEN "empty_orderbook"
    ELSE IF orderbook.symbol \notin expected_symbols THEN "invalid_symbol"
    ELSE IF levels_error(orderbook.bids) # NoError THEN levels_error(orderbook.bids)
    ELSE levels_error(orderbook.asks)

\* Checks 1 to 4 of validate_orderbook, lines 124-166.
validate_orderbook_error(orderbook) ==
    IF orderbook.bids = <<>> \/ orderbook.asks = <<>> THEN "empty_orderbook"
    ELSE IF orderbook.event_time <= 0 THEN "invalid_timestamp"
    ELSE IF orderbook.symbol \notin expected_symbols THEN "invalid_symbol"
    ELSE IF levels_error(orderbook.bids) # NoError THEN levels_error(orderbook.bids)
    ELSE levels_error(orderbook.asks)

\* Mutant: a record older than the last accepted one is rejected.
out_of_order_error_rejecting(timestamp, last) ==
    IF is_out_of_order(timestamp, last) THEN "out_of_order" ELSE NoError

\* The order check of lines 106-112 and 168-173 only logs a warning.
out_of_order_error(timestamp, last) == NoError

\* Mutant: the id is added and nothing is evicted.
add_trade_id_unbounded(ids, trade_id) == {ids \cup {trade_id}}

\* _add_trade_id, lines 195-202: the sets it can leave.  set.pop() removes an
\* arbitrary member, the id just added included.
add_trade_id(ids, trade_id) ==
    LET added == ids \cup {trade_id}
    IN IF Cardinality(added) > max_trade_ids
       THEN {added \ {evicted} : evicted \in added}
       ELSE {added}

\* max(self.last_..._timestamp, timestamp): lines 116 and 176-179.
next_last_timestamp(last, timestamp) == Max(last, timestamp)

\* Mutant: the error is counted in total_errors only.
record_error_total_only(error_type) ==
    /\ total_errors' = total_errors + 1
    /\ error_counts' = error_counts

\* _record_error: lines 204-218.
record_error(error_type) ==
    /\ total_errors' = total_errors + 1
    /\ error_counts' = [error_counts EXCEPT ![error_type] = @ + 1]

\* __init__: lines 35-50.
ValidatorNew ==
    /\ recent_trade_ids = {}
    /\ last_trade_timestamp = 0
    /\ last_orderbook_timestamp = 0
    /\ total_validated = 0
    /\ total_errors = 0
    /\ error_counts = [e \in ValidationErrorType |-> 0]
    /\ val_pending = [type |-> "none"]
    /\ val_last = [type |-> "none"]
    /\ accepted_ids = <<>>
    /\ accepted_times = [type \in {"trade", "orderbook"} |-> {}]

\* A validator that is never called.
ValidatorInit0 == ValidatorNew /\ val_budget = 0

\* validate_trade: lines 52-118.
validate_trade(trade) ==
    LET pre == validate_trade_error(trade, recent_trade_ids)
        err == IF pre # NoError THEN pre
               ELSE out_of_order_error(trade.trade_time, last_trade_timestamp)
    IN /\ total_validated' = total_validated + 1
       /\ val_last' = [type |-> "trade", id |-> trade.aggregate_trade_id,
                       time |-> trade.trade_time, pre |-> pre, result |-> err,
                       late |-> is_out_of_order(trade.trade_time, last_trade_timestamp)]
       /\ IF err # NoError
          THEN /\ record_error(err)
               /\ UNCHANGED <<recent_trade_ids, last_trade_timestamp, accepted_ids,
                              accepted_times>>
          ELSE /\ recent_trade_ids' \in add_trade_id(recent_trade_ids, trade.aggregate_trade_id)
               /\ last_trade_timestamp' =
                      next_last_timestamp(last_trade_timestamp, trade.trade_time)
               /\ accepted_ids' = Append(accepted_ids, trade.aggregate_trade_id)
               /\ accepted_times' = [accepted_times EXCEPT !["trade"] = @ \cup {trade.trade_time}]
               /\ UNCHANGED <<total_errors, error_counts>>
       /\ UNCHANGED last_orderbook_timestamp

\* validate_orderbook: lines 120-181.
validate_orderbook(orderbook) ==
    LET pre == validate_orderbook_error(orderbook)
        err == IF pre # NoError THEN pre
               ELSE out_of_order_error(orderbook.event_time, last_orderbook_timestamp)
    IN /\ total_validated' = total_validated + 1
       /\ val_last' = [type |-> "orderbook", id |-> 0,
                       time |-> orderbook.event_time, pre |-> pre, result |-> err,
                       late |-> is_out_of_order(orderbook.event_time, last_orderbook_timestamp)]
       /\ IF err # NoError
          THEN /\ record_error(err)
               /\ UNCHANGED <<last_orderbook_timestamp, accepted_times>>
          ELSE /\ last_orderbook_timestamp' =
                      next_last_timestamp(last_orderbook_timestamp, orderbook.event_time)
               /\ accepted_times' =
                      [accepted_times EXCEPT !["orderbook"] = @ \cup {orderbook.event_time}]
               /\ UNCHANGED <<total_errors, error_counts>>
       /\ UNCHANGED <<recent_trade_ids, last_trade_timestamp, accepted_ids>>

\* A caller validates a trade.
ValidateTrade(trade) ==
    /\ val_pending.type = "none"
    /\ total_validated < val_budget
    /\ validate_trade(trade)
    /\ UNCHANGED <<non_validator_vars, val_pending, val_budget>>

\* A caller validates an order book.
ValidateOrderBook(orderbook) ==
    /\ val_pending.type = "none"
    /\ total_validated < val_budget
    /\ validate_orderbook(orderbook)
    /\ UNCHANGED <<non_validator_vars, val_pending, val_budget>>

\* The record drawn by KindInit is validated.
ValidatePending ==
    /\ val_pending.type # "none"
    /\ total_validated < val_budget
    /\ IF val_pending.type = "trade"
       THEN validate_trade(val_pending.record)
       ELSE validate_orderbook(val_pending.record)
    /\ UNCHANGED <<non_validator_vars, val_pending, val_budget>>

\* ====================================================== DataNormalizer
NoRecord == [none |-> TRUE]     \* None

orderbook_depth == CheckDepth   \* Settings.data.orderbook_depth, 5 as the validator's

\* deque(maxlen=maxlen).append(x): the oldest element leaves a full deque.
deque_append(deque, x, maxlen) ==
    IF maxlen = 0 THEN <<>>
    ELSE IF Len(deque) >= maxlen THEN Append(Tail(deque), x)
    ELSE Append(deque, x)

\* A float that is a quotient is kept as <<numerator, denominator>>; ZERO is
\* the literal 0 / 0.0 the code falls back to.
ZERO == <<0, 1>>
ratio(numerator, denominator) == <<numerator, denominator>>

\* large_trade_threshold of __init__ (line 69), in price units times quantity
\* units.
large_trade_threshold == 30

\* The NormalizedTrade that normalize_trade returns: lines 77-106.
normalized_trade(trade) ==
    [timestamp |-> trade.trade_time,
     symbol |-> trade.symbol,
     trade_id |-> trade.aggregate_trade_id,
     price |-> float(trade.price),
     quantity |-> float(trade.quantity),
     amount_usdt |-> float(trade.price) * float(trade.quantity),
     is_large_trade |->
        float(trade.price) * float(trade.quantity) >= large_trade_threshold]

\* normalize_trade's changes to the rolling state: lines 92-95.
normalize_trade(trade) ==
    /\ cumulative_volume' = cumulative_volume + float(trade.quantity)
    /\ norm_recent_trades' =
          deque_append(norm_recent_trades,
                       <<float(trade.price), float(trade.quantity)>>, NormWindow)

RECURSIVE SumQuantity(_)
SumQuantity(levels) ==
    IF levels = <<>> THEN 0 ELSE float(Head(levels)[2]) + SumQuantity(Tail(levels))

\* The NormalizedOrderBook that normalize_orderbook returns: lines 120-166.
\* It changes no state of the normalizer.
normalized_orderbook(orderbook) ==
    LET bids == SubSeq(orderbook.bids, 1, Min(Len(orderbook.bids), orderbook_depth))
        asks == SubSeq(orderbook.asks, 1, Min(Len(orderbook.asks), orderbook_depth))
        best_bid == float(bids[1][1])
        best_ask == float(asks[1][1])
        total_bid_volume == SumQuantity(bids)
        total_ask_volume == SumQuantity(asks)
    IN IF bids = <<>> \/ asks = <<>>
       THEN [timestamp |-> orderbook.event_time, symbol |-> orderbook.symbol,
             best_bid |-> 0, best_ask |-> 0, mid_price |-> ZERO, spread |-> 0,
             spread_bps |-> ZERO,
             total_bid_volume |-> 0, total_ask_volume |-> 0,
             bid_ask_ratio |-> ZERO, imbalance |-> ZERO]
       ELSE [timestamp |-> orderbook.event_time, symbol |-> orderbook.symbol,
             best_bid |-> best_bid, best_ask |-> best_ask,
             mid_price |-> ratio(best_bid + best_ask, 2),
             spread |-> best_ask - best_bid,
             spread_bps |-> IF best_bid + best_ask > 0
                            THEN ratio((best_ask - best_bid) * 2 * 10000,
                                       best_bid + best_ask)
                            ELSE ZERO,
             total_bid_volume |-> total_bid_volume,
             total_ask_volume |-> total_ask_volume,
             bid_ask_ratio |-> IF total_ask_volume > 0
                               THEN ratio(total_bid_volume, total_ask_volume)
                               ELSE ZERO,
             imbalance |-> IF total_bid_volume + total_ask_volume > 0
                           THEN ratio(total_bid_volume - total_ask_volume,
                                      total_bid_volume + total_ask_volume)
                           ELSE ZERO]

\* ========================================================== HotStorage
max_trades == StoreCapacity
max_orderbooks == StoreCapacity
ttl == TtlCfg

\* Mutant: the record is put in the index and nothing is cleaned up.
index_put_without_cleanup(index, record, time) ==
    [ts \in DOMAIN index \cup {record.timestamp} |->
        IF ts = record.timestamp THEN record ELSE index[ts]]

\* self.index[timestamp] = record, then _cleanup_old_*: the entries below
\* now - ttl are deleted (lines 56, 66, 165-208).
index_put(index, record, time) ==
    LET put == [ts \in DOMAIN index \cup {record.timestamp} |->
                    IF ts = record.timestamp THEN record ELSE index[ts]]
    IN [ts \in {k \in DOMAIN put : k >= time - ttl} |-> put[ts]]

\* Mutant: a full ring buffer refuses the new trade.
ring_append_keeps_oldest(ring, record, maxlen) ==
    IF Len(ring) >= maxlen THEN ring ELSE Append(ring, record)

\* self.trades.append(trade) on deque(maxlen=max_trades): lines 38 and 55.
ring_append(ring, record, maxlen) == deque_append(ring, record, maxlen)

\* add_trade: lines 53-61.
add_trade(trade) ==
    /\ trades' = ring_append(trades, trade, max_trades)
    /\ trade_index' = index_put(trade_index, trade, now)
    /\ latest_trade' = trade
    /\ total_trades_stored' = total_trades_stored + 1
    /\ inserted_trades' = Append(inserted_trades, trade)

\* Mutant: add_orderbook does not count the order book.
add_orderbook_uncounted(orderbook) ==
    /\ orderbooks' = deque_append(orderbooks, orderbook, max_orderbooks)
    /\ orderbook_index' = index_put(orderbook_index, orderbook, now)
    /\ latest_orderbook' = orderbook
    /\ total_orderbooks_stored' = total_orderbooks_stored

\* add_orderbook: lines 63-71.
add_orderbook(orderbook) ==
    /\ orderbooks' = deque_append(orderbooks, orderbook, max_orderbooks)
    /\ orderbook_index' = index_put(orderbook_index, orderbook, now)
    /\ latest_orderbook' = orderbook
    /\ total_orderbooks_stored' = total_orderbooks_stored + 1

\* min over a non-empty set of timestamps: the first key of a SortedDict.
SetMin(S) == CHOOSE x \in S : \A y \in S : x <= y

\* SortedDict.items() restricted to keys: the records in ascending key order.
RECURSIVE index_items(_, _)
index_items(index, keys) ==
    IF keys = {} THEN <<>>
    ELSE <<index[SetMin(keys)]>> \o index_items(index, keys \ {SetMin(keys)})

\* get_trades_since: lines 81-86.
get_trades_since(timestamp_ms) ==
    index_items(trade_index, {ts \in DOMAIN trade_index : ts >= timestamp_ms})

\* get_trades_in_window: lines 114-118.
get_trades_in_window(window_seconds) == get_trades_since(now - window_seconds)

RECURSIVE sum_quantity(_)
sum_quantity(records) ==
    IF records = <<>> THEN 0 ELSE Head(records).quantity + sum_quantity(Tail(records))

\* calculate_volume_in_window: lines 120-123.
calculate_volume_in_window(window_seconds) ==
    sum_quantity(get_trades_in_window(window_seconds))

\* list(ring)[-count:]: Python reads -0 as 0, so the slice from -0 is the
\* whole list.
slice_from_minus(list, count) ==
    IF count = 0 THEN list
    ELSE SubSeq(list, Max(Len(list) - count, 0) + 1, Len(list))

\* get_recent_trades and get_recent_orderbooks: lines 99-101 and 110-112.
get_recent(ring, count) ==
    IF Len(ring) >= count THEN slice_from_minus(ring, count) ELSE ring

get_recent_trades(count) == get_recent(trades, count)

get_recent_orderbooks(count) == get_recent(orderbooks, count)

\* The normalized trades a caller can add.
NormalizedTrades ==
    {normalized_trade(trade) : trade \in
        {t \in Trades : validate_trade_error(t, {}) = NoError}}

\* The normalized order books a caller can add.
NormalizedOrderBooks ==
    {normalized_orderbook(orderbook) : orderbook \in
        {o \in OrderBooks : validate_orderbook_error(o) = NoError}}

\* A caller adds a trade to the store.
AddTrade(trade) ==
    /\ total_trades_stored + total_orderbooks_stored < store_budget
    /\ add_trade(trade)
    /\ UNCHANGED <<non_store_vars, orderbooks, orderbook_index, latest_orderbook,
                   total_orderbooks_stored, now, store_budget>>

\* A caller adds an order book to the store.
AddOrderbook(orderbook) ==
    /\ total_trades_stored + total_orderbooks_stored < store_budget
    /\ add_orderbook(orderbook)
    /\ UNCHANGED <<non_store_vars, trades, trade_index, latest_trade,
                   total_trades_stored, inserted_trades, now, store_budget>>

\* The wall clock advances.
TickClock ==
    /\ now < MaxNow
    /\ now' = now + 1
    /\ UNCHANGED <<non_store_vars, store_vars, inserted_trades, store_budget>>

\* ================================================== MarketStateManager
\* MarketState(timestamp=..., symbol=symbol): the dataclass defaults, lines
\* 12-46.
new_market_state(time) ==
    [timestamp |-> time,
     last_price |-> 0, best_bid |-> 0, best_ask |-> 0, spread |-> 0,
     spread_bps |-> ZERO, mid_price |-> ZERO,
     total_bid_volume |-> 0, total_ask_volume |-> 0,
     bid_ask_ratio |-> ZERO, bid_ask_imbalance |-> ZERO,
     recent_volume_1m |-> 0, recent_volume_5m |-> 0, vwap_1m |-> ZERO,
     price_momentum |-> ZERO, volume_spike |-> FALSE, large_trade_count |-> 0,
     trade_count |-> 0, orderbook_count |-> 0,
     last_trade_timestamp |-> 0, last_orderbook_timestamp |-> 0]

NoHandle == [from |-> "none", live |-> FALSE, value |-> NoRecord, serial |-> 0]

\* __init__: lines 52-67.
ManagerNew ==
    /\ market_state = new_market_state(0)
    /\ state_trade_history = <<>>
    /\ price_history = <<>>
    /\ large_trade_history = <<>>
    /\ all_trades = <<>>
    /\ msm_last = [op |-> "none"]
    /\ held = NoHandle
    /\ msm_calls = 0

\* [x for x in history if now - x['timestamp'] <= window]: lines 161-176,
\* 202-205 and 222-225.
recent_entries(history, time, window) ==
    SelectSeq(history, LAMBDA entry : time - entry.timestamp <= window)

RECURSIVE sum_price_quantity(_)
sum_price_quantity(records) ==
    IF records = <<>> THEN 0
    ELSE Head(records).price * Head(records).quantity
            + sum_price_quantity(Tail(records))

\* _update_volume_metrics: lines 156-190.  volume_1m > (volume_5m / 5) * 2 is
\* compared without dividing.
volume_metrics(history, time) ==
    LET recent_1m == recent_entries(history, time, VolumeWindow1m)
        volume_1m == sum_quantity(recent_1m)
        volume_5m == sum_quantity(recent_entries(history, time, VolumeWindow5m))
    IN [recent_volume_1m |-> volume_1m,
        recent_volume_5m |-> volume_5m,
        vwap_1m |-> IF recent_1m # <<>> /\ volume_1m > 0
                    THEN ratio(sum_price_quantity(recent_1m), volume_1m)
                    ELSE ZERO,
        volume_spike |-> IF volume_5m > 0 THEN volume_1m * 5 > volume_5m * 2
                         ELSE volume_1m > 0]

\* _update_price_momentum: lines 192-215.
price_momentum(history, time) ==
    LET recent_prices_5s == recent_entries(history, time, MomentumWindow)
        start_price == recent_prices_5s[1].price
        end_price == recent_prices_5s[Len(recent_prices_5s)].price
    IN IF Len(history) < 2 THEN ZERO
       ELSE IF Len(recent_prices_5s) < 2 THEN ZERO
       ELSE IF start_price > 0 THEN ratio(end_price - start_price, start_price)
       ELSE ZERO

\* _update_large_trade_count: lines 217-227.
large_trade_count(history, time) == Len(recent_entries(history, time, VolumeWindow1m))

\* update_from_trade: lines 69-103.
update_from_trade(trade) ==
    LET trade_history_1 == deque_append(state_trade_history,
                               [timestamp |-> trade.timestamp, price |-> trade.price,
                                quantity |-> trade.quantity,
                                amount_usdt |-> trade.amount_usdt,
                                is_large |-> trade.is_large_trade],
                               TradeHistoryLen)
        price_history_1 == deque_append(price_history,
                               [timestamp |-> trade.timestamp, price |-> trade.price],
                               PriceHistoryLen)
        large_history_1 == IF trade.is_large_trade
                           THEN deque_append(large_trade_history,
                                    [timestamp |-> trade.timestamp,
                                     amount_usdt |-> trade.amount_usdt],
                                    LargeHistoryLen)
                           ELSE large_trade_history
        metrics == volume_metrics(trade_history_1, now)
    IN /\ state_trade_history' = trade_history_1
       /\ price_history' = price_history_1
       /\ large_trade_history' = large_history_1
       /\ market_state' =
            [market_state EXCEPT
                !.trade_count = @ + 1,
                !.last_price = trade.price,
                !.last_trade_timestamp = trade.timestamp,
                !.recent_volume_1m = metrics.recent_volume_1m,
                !.recent_volume_5m = metrics.recent_volume_5m,
                !.vwap_1m = metrics.vwap_1m,
                !.volume_spike = metrics.volume_spike,
                !.price_momentum = price_momentum(price_history_1, now),
                !.large_trade_count = large_trade_count(large_history_1, now),
                !.timestamp = now]
       /\ all_trades' = Append(all_trades, trade)
       /\ msm_last' = [op |-> "trade", record |-> trade]

\* Mutant: the order-book update also refreshes the momentum.
update_from_orderbook_refreshing(orderbook) ==
    /\ market_state' =
            [market_state EXCEPT
                !.orderbook_count = @ + 1,
                !.last_orderbook_timestamp = orderbook.timestamp,
                !.best_bid = orderbook.best_bid,
                !.best_ask = orderbook.best_ask,
                !.mid_price = orderbook.mid_price,
                !.spread = orderbook.spread,
                !.spread_bps = orderbook.spread_bps,
                !.total_bid_volume = orderbook.total_bid_volume,
                !.total_ask_volume = orderbook.total_ask_volume,
                !.bid_ask_ratio = orderbook.bid_ask_ratio,
                !.bid_ask_imbalance = orderbook.imbalance,
                !.price_momentum = price_momentum(price_history, now),
                !.timestamp = now]
    /\ msm_last' = [op |-> "orderbook", record |-> orderbook]
    /\ UNCHANGED <<state_trade_history, price_history, large_trade_history, all_trades>>

\* update_from_orderbook: lines 105-123.
update_from_orderbook(orderbook) ==
    /\ market_state' =
            [market_state EXCEPT
                !.orderbook_count = @ + 1,
                !.last_orderbook_timestamp = orderbook.timestamp,
                !.best_bid = orderbook.best_bid,
                !.best_ask = orderbook.best_ask,
                !.mid_price = orderbook.mid_price,
                !.spread = orderbook.spread,
                !.spread_bps = orderbook.spread_bps,
                !.total_bid_volume = orderbook.total_bid_volume,
                !.total_ask_volume = orderbook.total_ask_volume,
                !.bid_ask_ratio = orderbook.bid_ask_ratio,
                !.bid_ask_imbalance = orderbook.imbalance,
                !.timestamp = now]
    /\ msm_last' = [op |-> "orderbook", record |-> orderbook]
    /\ UNCHANGED <<state_trade_history, price_history, large_trade_history, all_trades>>

\* The dict get_features builds: lines 131-154.
features(market) ==
    [last_price |-> market.last_price,
     mid_price |-> market.mid_price,
     spread_bps |-> market.spread_bps,
     imbalance |-> market.bid_ask_imbalance,
     bid_ask_ratio |-> market.bid_ask_ratio,
     volume_1m |-> market.recent_volume_1m,
     volume_5m |-> market.recent_volume_5m,
     vwap_1m |-> market.vwap_1m,
     price_momentum |-> market.price_momentum,
     volume_spike |-> market.volume_spike,
     large_trade_count |-> market.large_trade_count,
     trade_count |-> market.trade_count,
     orderbook_count |-> market.orderbook_count]

\* Mutant: get_features hands out a view of the live state object.
get_features_live(serial) ==
    [from |-> "get_features", live |-> TRUE, value |-> NoRecord, serial |-> serial]

\* get_features: lines 129-154.  The dict is a new object holding the numbers
\* and the flag of this moment.
get_features(serial) ==
    [from |-> "get_features", live |-> FALSE, value |-> features(market_state),
     serial |-> serial]

\* get_current_state: lines 125-127.  The caller gets the manager's own
\* MarketState object, which update_from_* go on writing.
get_current_state(serial) ==
    [from |-> "get_current_state", live |-> TRUE, value |-> NoRecord, serial |-> serial]

\* What the holder of a handle reads through it now.
read_through(handle) ==
    IF handle.live
    THEN (IF handle.from = "get_features" THEN features(market_state) ELSE market_state)
    ELSE handle.value

\* reset: lines 229-238.  self.state becomes a new object; the old one keeps
\* what it held.
reset ==
    /\ held' = IF held.live
               THEN [held EXCEPT !.live = FALSE, !.value = read_through(held)]
               ELSE held
    /\ market_state' = new_market_state(now)
    /\ state_trade_history' = <<>>
    /\ price_history' = <<>>
    /\ large_trade_history' = <<>>
    /\ all_trades' = <<>>
    /\ msm_last' = [op |-> "reset"]

not_manager_vars == <<connector_vars, recon_vars, validator_vars, normalizer_vars,
                      store_vars, now, driver_vars, callback_vars, inserted_trades,
                      store_budget, engine_vars, bot_vars>>

\* A caller of the manager: one call of update_from_trade, update_from_orderbook,
\* reset, get_features or get_current_state.
UpdateFromTrade(trade) ==
    /\ msm_calls < msm_budget
    /\ msm_calls' = msm_calls + 1
    /\ update_from_trade(trade)
    /\ UNCHANGED <<not_manager_vars, held, msm_budget>>

UpdateFromOrderbook(orderbook) ==
    /\ msm_calls < msm_budget
    /\ msm_calls' = msm_calls + 1
    /\ update_from_orderbook(orderbook)
    /\ UNCHANGED <<not_manager_vars, held, msm_budget>>

Reset ==
    /\ msm_calls < msm_budget
    /\ msm_calls' = msm_calls + 1
    /\ reset
    /\ UNCHANGED <<not_manager_vars, msm_budget>>

GetFeatures ==
    /\ msm_calls < msm_budget
    /\ msm_calls' = msm_calls + 1
    /\ held' = get_features(msm_calls + 1)
    /\ UNCHANGED <<not_manager_vars, market_state, manager_data, msm_budget>>

GetCurrentState ==
    /\ msm_calls < msm_budget
    /\ msm_calls' = msm_calls + 1
    /\ held' = get_current_state(msm_calls + 1)
    /\ UNCHANGED <<not_manager_vars, market_state, manager_data, msm_budget>>

\* ======================================================== SignalEngine
\* The thresholds __init__ reads from the settings, lines 15-21.  Times are in
\* clock ticks, amounts in price units times quantity units, the price-change
\* threshold in thousandths and the imbalance threshold in hundredths.
volume_spike_window == 1
volume_spike_baseline == 2
volume_spike_ratio == 2
min_trade_amount == 30
price_change_window == 1
price_change_threshold == 3
imbalance_threshold == 65

HISTORY_MAXLEN == 5000
ENGINE_DEPTH == 5

\* __init__: lines 24-25.
EngineNew ==
    /\ trade_history = <<>>
    /\ last_imbalance = <<1, 2>>
    /\ sig_last = [type |-> "none"]
    /\ engine_calls = 0

\* An engine no caller calls directly.
EngineInit0 == EngineNew /\ sig_budget = 0

\* Lines 32-35 of update_trade: a trade of at least min_trade_amount enters
\* the history.
history_append(history, timestamp, price, quantity) ==
    LET amount_usdt == price * quantity
    IN IF amount_usdt >= min_trade_amount
       THEN deque_append(history, <<timestamp, amount_usdt, price>>, HISTORY_MAXLEN)
       ELSE history

\* update_trade, lines 27-35: the history it leaves.
update_trade(history, trade) ==
    history_append(history, trade.trade_time, float(trade.price), float(trade.quantity))

\* sum(amount for ts, amount, _ in history if keep(ts)): lines 73-76, 81-84.
RECURSIVE sum_amount(_, _, _)
sum_amount(history, from, to) ==
    IF history = <<>> THEN 0
    ELSE (IF from <= Head(history)[1] /\ Head(history)[1] <= to
          THEN Head(history)[2] ELSE 0)
         + sum_amount(Tail(history), from, to)

\* _check_volume_spike: lines 65-92.  `now - ts <= window` keeps the
\* timestamps from now - window on, the baseline those of
\* [now - baseline - window, now - window); the two rates are compared
\* without dividing.
check_volume_spike(history, time) ==
    LET recent == sum_amount(history, time - volume_spike_window, time + MaxNow)
        baseline == sum_amount(history,
                               time - volume_spike_baseline - volume_spike_window,
                               time - volume_spike_window - 1)
    IN IF Len(history) < 2 THEN FALSE
       ELSE IF baseline = 0 THEN FALSE
       ELSE recent * volume_spike_baseline
                >= volume_spike_ratio * baseline * volume_spike_window

\* The prices of the entries within the price-change window, in deque order:
\* lines 102-105.
RECURSIVE recent_prices(_, _)
recent_prices(history, time) ==
    IF history = <<>> THEN <<>>
    ELSE (IF time - Head(history)[1] <= price_change_window
          THEN <<Head(history)[3]>> ELSE <<>>)
         \o recent_prices(Tail(history), time)

\* _check_price_change: lines 94-119.  "none" stands for None.
check_price_change(history, time) ==
    LET prices == recent_prices(history, time)
        start_price == prices[1]
        end_price == prices[Len(prices)]
    IN IF Len(history) < 2 THEN "none"
       ELSE IF Len(prices) < 2 THEN "none"
       ELSE IF (end_price - start_price) * 1000 >= price_change_threshold * start_price
            THEN "UP"
       ELSE IF (end_price - start_price) * 1000 <= -price_change_threshold * start_price
            THEN "DOWN"
       ELSE "none"

\* sum(float(level[1]) for level in levels[:5]): lines 40-41.
engine_volume(levels) == SumQuantity(SubSeq(levels, 1, Min(Len(levels), ENGINE_DEPTH)))

\* Mutant: the looser policy, the price direction alone decides.
entry_signal_price_only(volume_spike, price_direction, bid_volume, ask_volume) ==
    IF bid_volume + ask_volume = 0 THEN "none"
    ELSE IF price_direction = "UP" THEN "LONG"
    ELSE IF price_direction = "DOWN" THEN "SHORT"
    ELSE "none"

\* The value update_orderbook returns, lines 42-63: imbalance is
\* bid_volume / total, compared with the threshold without dividing.
entry_signal(volume_spike, price_direction, bid_volume, ask_volume) ==
    LET total == bid_volume + ask_volume
    IN IF total = 0 THEN "none"
       ELSE IF volume_spike /\ price_direction # "none"
       THEN IF price_direction = "UP" /\ bid_volume * 100 >= imbalance_threshold * total
            THEN "LONG"
            ELSE IF price_direction = "DOWN"
                    /\ bid_volume * 100 <= (100 - imbalance_threshold) * total
            THEN "SHORT"
            ELSE "none"
       ELSE "none"

\* update_orderbook: lines 37-63.
update_orderbook(orderbook) ==
    LET bid_volume == engine_volume(orderbook.bids)
        ask_volume == engine_volume(orderbook.asks)
        volume_spike == check_volume_spike(trade_history, now)
        price_direction == check_price_change(trade_history, now)
    IN /\ last_imbalance' = IF bid_volume + ask_volume = 0 THEN last_imbalance
                            ELSE <<bid_volume, bid_volume + ask_volume>>
       /\ sig_last' = [type |-> "evaluated", bid_volume |-> bid_volume,
                       ask_volume |-> ask_volume, history |-> trade_history,
                       time |-> now,
                       signal |-> entry_signal(volume_spike, price_direction,
                                               bid_volume, ask_volume)]

\* A caller hands a trade that happens now to the engine.
EngineUpdateTrade(trade) ==
    /\ engine_calls < sig_budget
    /\ trade.trade_time = now
    /\ trade_history' = update_trade(trade_history, trade)
    /\ engine_calls' = engine_calls + 1
    /\ UNCHANGED <<connector_vars, recon_vars, validator_vars, pipeline_vars, bot_vars,
                   manager_vars, last_imbalance, sig_last, sig_budget>>

\* A caller hands an order book to the engine.
EngineUpdateOrderbook(orderbook) ==
    /\ engine_calls < sig_budget
    /\ update_orderbook(orderbook)
    /\ engine_calls' = engine_calls + 1
    /\ UNCHANGED <<connector_vars, recon_vars, validator_vars, pipeline_vars, bot_vars,
                   manager_vars, trade_history, sig_budget>>

\* ========================================================== TradingBot
\* __init__: main.py lines 33-59, main_v2.py lines 25-41.
BotNew ==
    /\ current_position = "none"
    /\ bot_pc = "idle"
    /\ bot_signal = "none"
    /\ bot_state = NoRecord
    /\ verify_last = [type |-> "none"]
    /\ bot_last = "none"
    /\ bot_calls = 0
    /\ bot_entries = 0

\* An orchestrator no caller calls directly.
BotInit0 == BotNew /\ bot_version = "v1" /\ bot_budget = 0

\* _check_orderbook_signal: main.py lines 162-174, main_v2.py lines 127-139.
\* Imbalances are in hundredths.
check_orderbook_signal(imbalance) ==
    IF imbalance > 70 THEN "LONG"
    ELSE IF imbalance < -70 THEN "SHORT"
    ELSE "none"

\* should_exit of _check_exit_signal: main.py lines 128-150, main_v2.py lines
\* 93-115.  The momentum is in thousandths.
should_exit(position, market) ==
    \/ /\ position = "LONG"
       /\ market.bid_ask_imbalance < -30 \/ market.price_momentum < -2
    \/ /\ position = "SHORT"
       /\ market.bid_ask_imbalance > 30 \/ market.price_momentum > 2

\* Mutant: an exit reverses the position.
position_after_exit_check_reversing(position, market) ==
    IF position # "none" /\ should_exit(position, market)
    THEN (IF position = "LONG" THEN "SHORT" ELSE "LONG")
    ELSE position

\* The end of on_state_update, main.py lines 93-95 and main_v2.py lines 73-74:
\* the position it leaves when it holds position at that point.
position_after_exit_check(position, market) ==
    IF position # "none" /\ should_exit(position, market) THEN "none" ELSE position

\* The signal of on_state_update: main.py lines 75-87, main_v2.py lines 57-66.
\* update_trade returns nothing, so a trade gives no signal.
signal_of(data_type, data) ==
    IF data_type = "orderbook" THEN check_orderbook_signal(data.imbalance) ELSE "none"

\* Whether _handle_entry_signal awaits verify_before_order before it sets the
\* position: main.py lines 109-118 do, main_v2.py lines 76-88 do not.
entry_is_verified(version) == version = "v1"

\* on_state_update is called: main.py lines 61-95 up to the await of
\* verify_before_order (line 109), main_v2.py lines 43-74.  The legacy trade
\* handed to the engine carries str(price) and str(quantity), which float()
\* reads back unchanged.
OnStateUpdate(data_type, data, market) ==
    LET signal == signal_of(data_type, data)
        enters == signal # "none" /\ current_position = "none"
    IN /\ bot_pc = "idle"
       /\ bot_calls < bot_budget
       /\ bot_calls' = bot_calls + 1
       /\ bot_state' = market
       /\ last_ws_price' = IF data_type = "trade" /\ bot_version = "v1"
                           THEN data.price ELSE last_ws_price
       /\ trade_history' = IF data_type = "trade"
                           THEN history_append(trade_history, data.timestamp,
                                               data.price, data.quantity)
                           ELSE trade_history
       /\ IF enters /\ entry_is_verified(bot_version)
          THEN /\ bot_pc' = "verify"
               /\ bot_signal' = signal
               /\ bot_last' = "running"
               /\ UNCHANGED <<current_position, bot_entries>>
          ELSE /\ current_position' =
                      position_after_exit_check(IF enters THEN signal
                                                ELSE current_position, market)
               /\ bot_entries' = bot_entries + (IF enters THEN 1 ELSE 0)
               /\ bot_signal' = IF enters THEN signal ELSE bot_signal
               /\ bot_last' = "returned"
               /\ UNCHANGED bot_pc
       /\ UNCHANGED <<connector_vars, validator_vars, pipeline_vars, manager_vars>>
       /\ UNCHANGED <<rec_session, rec_pc, total_checks, mismatch_count, last_rest_price,
                      rec_stopped, rec_calls>>
       /\ UNCHANGED <<last_imbalance, sig_last, engine_calls, sig_budget, bot_version,
                      verify_last, bot_budget>>

\* The GET of verify_before_order has ended: data_reconciliation.py lines
\* 147-169, then main.py lines 113-123 and 93-95.  The log line of a refused
\* order formats rest_price with `:,.2f`, which raises TypeError when
\* rest_price is None (lines 114-117).
BotVerifyReturn(outcome, price) ==
    LET result == verify_before_order(bot_state.last_price, outcome, price)
        accepted == result.type = "returned" /\ result.accepted
        raises == \/ result.type = "raised"
                  \/ result.type = "returned" /\ ~result.accepted
                                              /\ result.reference = NoPrice
    IN /\ bot_pc = "verify"
       /\ rec_session # "open" => outcome = "error"
       /\ bot_pc' = "idle"
       /\ verify_last' = [ws_price |-> bot_state.last_price, outcome |-> outcome,
                          fetched |-> price, result |-> result]
       /\ current_position' =
              IF accepted THEN position_after_exit_check(bot_signal, bot_state)
              ELSE current_position
       /\ bot_entries' = bot_entries + (IF accepted THEN 1 ELSE 0)
       /\ bot_last' = IF raises THEN "raise" ELSE "returned"
       /\ UNCHANGED <<connector_vars, recon_vars, validator_vars, pipeline_vars,
                      engine_vars, manager_vars>>
       /\ UNCHANGED <<bot_version, bot_signal, bot_state, bot_calls, bot_budget>>

\* ======================================================== DataPipeline
\* __init__ of the normalizer, the store, the state manager and the driver.
PipelineNew ==
    /\ norm_recent_trades = <<>>
    /\ cumulative_volume = 0
    /\ trades = <<>>
    /\ trade_index = <<>>
    /\ latest_trade = NoRecord
    /\ total_trades_stored = 0
    /\ orderbooks = <<>>
    /\ orderbook_index = <<>>
    /\ latest_orderbook = NoRecord
    /\ total_orderbooks_stored = 0
    /\ now = 0
    /\ ManagerNew
    /\ processed_trades = 0
    /\ processed_orderbooks = 0
    /\ validation_errors = 0
    /\ cb_pending = FALSE
    /\ cb_calls = 0
    /\ cb_arg = NoRecord
    /\ cb_last = "none"
    /\ inserted_trades = <<>>

\* A pipeline no caller adds to directly.
PipelineInit0 == PipelineNew /\ store_budget = 0 /\ msm_budget = 0

\* Mutant: a rejected record is not counted.
process_rejected_uncounted ==
    /\ validation_errors' = validation_errors
    /\ UNCHANGED <<normalizer_vars, store_vars, inserted_trades, market_state,
                   manager_data, callback_vars, last_ws_price>>

\* The validation failed: lines 111-116 and 145-150.
process_rejected ==
    /\ validation_errors' = validation_errors + 1
    /\ UNCHANGED <<normalizer_vars, store_vars, inserted_trades, market_state,
                   manager_data, callback_vars, last_ws_price>>

\* Mutant: the callback is given the state as it was before the update.
callback_state_stale(before, after) == before

\* self.state_manager.get_current_state() at the call of on_state_update,
\* lines 132 and 166: the state after the update of lines 125 and 159.
callback_state(before, after) == after

\* await self.on_state_update(...) is entered: lines 128-133 and 162-167.
\* TradingBot.on_state_update first hands the price of a trade to the
\* reconciliation (src/main.py line 79).
invoke_callback(data_type, record) ==
    /\ cb_pending' = TRUE
    /\ cb_calls' = cb_calls + 1
    /\ cb_arg' = [data_type |-> data_type, data |-> record,
                  state |-> callback_state(market_state, market_state')]
    /\ cb_last' = "running"
    /\ last_ws_price' = IF data_type = "trade" THEN record.price ELSE last_ws_price

\* _process_trade up to its await: lines 107-133.
process_trade(trade) ==
    /\ validate_trade(trade)
    /\ IF val_last'.result # NoError
       THEN process_rejected
       ELSE /\ normalize_trade(trade)
            /\ add_trade(normalized_trade(trade))
            /\ update_from_trade(normalized_trade(trade))
            /\ invoke_callback("trade", normalized_trade(trade))
            /\ UNCHANGED <<orderbooks, orderbook_index, latest_orderbook,
                           total_orderbooks_stored, validation_errors>>

\* _process_orderbook up to its await: lines 141-167.
process_orderbook(orderbook) ==
    /\ validate_orderbook(orderbook)
    /\ IF val_last'.result # NoError
       THEN process_rejected
       ELSE /\ add_orderbook(normalized_orderbook(orderbook))
            /\ update_from_orderbook(normalized_orderbook(orderbook))
            /\ invoke_callback("orderbook", normalized_orderbook(orderbook))
            /\ UNCHANGED <<normalizer_vars, trades, trade_index, latest_trade,
                           total_trades_stored, inserted_trades, validation_errors>>

\* Mutant: on_message is started as a task of its own and not awaited.
pc_after_dispatch_detached(awaits) == "top"

\* Where the receive task stands after calling on_message: inside the
\* awaited callback, or back at the loop head when the record was rejected.
pc_after_dispatch(awaits) == IF awaits THEN "callback" ELSE "top"

\* recv() returned a trade or depth frame: lines 217-221, _process_message
\* lines 238-257, on_message lines 96-100 and _process_* up to the await of
\* the callback.
DriverRecvMessage(data_type, record) ==
    /\ pc["recv"] = "recv"
    /\ recv_on \in open_sessions
    /\ total_messages < message_budget
    /\ msg_age' = 0
    /\ total_messages' = total_messages + 1
    /\ handler_calls' = handler_calls + 1
    /\ IF data_type = "trade"
       THEN /\ trade_count' = trade_count + 1
            /\ process_trade(record)
            /\ UNCHANGED orderbook_count
       ELSE /\ orderbook_count' = orderbook_count + 1
            /\ process_orderbook(record)
            /\ UNCHANGED trade_count
    /\ pc' = [pc EXCEPT !["recv"] = pc_after_dispatch(val_last'.result = NoError)]
    /\ last_recv' = IF data_type = "trade" THEN "trade" ELSE "depth"
    /\ UNCHANGED <<cfg_vars, bound_vars, conn_vars, uptime, error_count, recv_on,
                   open_sessions, next_session, delays, exhausted, engine_vars,
                   bot_vars, held, msm_calls, msm_budget>>
    /\ UNCHANGED <<rec_session, rec_pc, total_checks, mismatch_count, last_rest_price,
                   rec_stopped, rec_calls>>
    /\ UNCHANGED <<val_pending, val_budget, now, processed_trades, processed_orderbooks,
                   store_budget>>

\* recv() returned a trade or depth frame without its time field: the parser
\* leaves None (data_parser.py lines 14 and 32) and the validator's
\* `<= 0` raises TypeError (data_validator.py lines 86 and 132), which
\* on_message catches and logs (lines 104-105).
DriverRecvUntimed(data_type) ==
    /\ pc["recv"] = "recv"
    /\ recv_on \in open_sessions
    /\ total_messages < message_budget
    /\ msg_age' = 0
    /\ total_messages' = total_messages + 1
    /\ handler_calls' = handler_calls + 1
    /\ trade_count' = trade_count + (IF data_type = "trade" THEN 1 ELSE 0)
    /\ orderbook_count' = orderbook_count + (IF data_type = "trade" THEN 0 ELSE 1)
    /\ total_validated' = total_validated + 1
    /\ val_last' = [type |-> "none"]
    /\ cb_last' = "stage_raise"
    /\ pc' = [pc EXCEPT !["recv"] = "top"]
    /\ last_recv' = IF data_type = "trade" THEN "trade" ELSE "depth"
    /\ UNCHANGED <<cfg_vars, bound_vars, conn_vars, uptime, error_count, recv_on,
                   open_sessions, next_session, delays, exhausted, app_vars>>
    /\ UNCHANGED <<recon_vars, recent_trade_ids, last_trade_timestamp,
                   last_orderbook_timestamp, total_errors, error_counts, val_pending,
                   accepted_ids, accepted_times, val_budget>>
    /\ UNCHANGED <<normalizer_vars, store_vars, now, market_state, driver_vars,
                   cb_pending, cb_calls, cb_arg, inserted_trades, store_budget>>

\* Mutant: an exception of the callback ends the receive task.
pc_after_callback_propagating(outcome) == IF outcome = "raise" THEN "done" ELSE "top"

\* on_message returns to _process_message and the receive loop whether the
\* callback returned or raised: the except of lines 104-105 swallows it.
pc_after_callback(outcome) == "top"

\* on_state_update returned or raised: lines 135-139 and 169-173, then
\* on_message lines 104-105.
DriverCallbackReturn(outcome) ==
    /\ cb_pending
    /\ cb_pending' = FALSE
    /\ cb_last' = outcome
    /\ processed_trades' = processed_trades +
            (IF outcome = "ok" /\ cb_arg.data_type = "trade" THEN 1 ELSE 0)
    /\ processed_orderbooks' = processed_orderbooks +
            (IF outcome = "ok" /\ cb_arg.data_type = "orderbook" THEN 1 ELSE 0)
    /\ pc' = [pc EXCEPT !["recv"] = pc_after_callback(outcome)]
    /\ UNCHANGED <<cfg_vars, bound_vars, conn_vars, time_vars, stat_vars, recv_on,
                   open_sessions, next_session, hist_vars, app_vars>>
    /\ UNCHANGED <<recon_vars, validator_vars, normalizer_vars, store_vars, now,
                   market_state, validation_errors, cb_calls, cb_arg, inserted_trades,
                   store_budget>>

\* A caller hands the pending order book to _process_orderbook: lines 141-167,
\* up to the await of the callback.
ProcessPendingOrderbook ==
    /\ val_pending.type = "orderbook"
    /\ total_validated < val_budget
    /\ process_orderbook(val_pending.record)
    /\ UNCHANGED <<connector_vars, rec_session, rec_pc, total_checks, mismatch_count,
                   last_rest_price, rec_stopped, rec_calls, engine_vars, bot_vars,
                   held, msm_calls, msm_budget>>
    /\ UNCHANGED <<val_pending, val_budget, now, processed_trades, processed_orderbooks,
                   store_budget>>

\* ------------------------------------------------------- specification
Next ==
    \/ Start
    \/ StartConnectOK
    \/ StartConnectFailed
    \/ StartGatherDone
    \/ StopCall
    \/ \E p \in {"start", "stop"} : StopReturn(p)
    \/ HealthLoopTop
    \/ HealthCheck
    \/ RecvLoopTop
    \/ RecvIdleWake
    \/ RecvTimeout
    \/ RecvConnectionClosed
    \/ RecvError
    \/ \E kind \in MsgKinds, outcome \in HandlerOutcomes : RecvMessage(kind, outcome)
    \/ \E p \in Tasks : ReconnectBegin(p)
    \/ \E p \in Tasks : BackoffWake(p)
    \/ \E p \in Tasks : ReconnectConnectOK(p)
    \/ \E p \in Tasks : ReconnectConnectFailed(p)
    \/ TickMessageAge
    \/ TickUptime

\* Spec explores reconnection: many sessions, one frame.
Init ==
    /\ ConnInit
    /\ session_budget = MaxSessions
    /\ message_budget = 1
    /\ check_budget = 0
    /\ ReconInit0
    /\ EngineInit0
    /\ BotInit0
    /\ ValidatorInit0
    /\ PipelineInit0

Spec == Init /\ [][Next]_vars

\* MsgSpec explores message handling: one reconnection, many frames.
MsgInit ==
    /\ ConnInit
    /\ max_reconnect_attempts = 1
    /\ session_budget = 2
    /\ message_budget = MaxMessages
    /\ check_budget = 0
    /\ ReconInit0
    /\ EngineInit0
    /\ BotInit0
    /\ ValidatorInit0
    /\ PipelineInit0

MsgSpec == MsgInit /\ [][Next]_vars

\* The event loop runs every coroutine that can go on: a sleep ends, a
\* connection attempt returns, recv() returns or times out.  Nothing obliges
\* the owner to call stop(), the network to deliver or the clock to advance.
RecvStep ==
    \/ RecvLoopTop
    \/ RecvIdleWake
    \/ RecvTimeout
    \/ RecvConnectionClosed
    \/ RecvError
    \/ \E kind \in MsgKinds, outcome \in HandlerOutcomes : RecvMessage(kind, outcome)
    \/ ReconnectBegin("recv")
    \/ BackoffWake("recv")
    \/ ReconnectConnectOK("recv")
    \/ ReconnectConnectFailed("recv")

HealthStep ==
    \/ HealthLoopTop
    \/ HealthCheck
    \/ ReconnectBegin("health")
    \/ BackoffWake("health")
    \/ ReconnectConnectOK("health")
    \/ ReconnectConnectFailed("health")

StartStep ==
    \/ Start
    \/ StartConnectOK
    \/ StartConnectFailed
    \/ StartGatherDone
    \/ StopReturn("start")

Fairness == WF_vars(RecvStep) /\ WF_vars(HealthStep) /\ WF_vars(StartStep)

FairSpec == Init /\ [][Next]_vars /\ Fairness

\* ReconSpec explores the reconciliation alone; the connector is never started.
ReconInit ==
    /\ ConnInit
    /\ max_reconnect_attempts = MaxAttempts
    /\ session_budget = 0
    /\ message_budget = 0
    /\ check_budget = MaxChecks
    /\ ReconInit0
    /\ EngineInit0
    /\ BotInit0
    /\ ValidatorInit0
    /\ PipelineInit0

ReconNext ==
    \/ ReconStart
    \/ ReconStop
    \/ ReconWake
    \/ \E outcome \in FetchOutcomes, price \in Prices : ReconFetchReturn(outcome, price)
    \/ \E price \in Prices : UpdateWsPrice(price)

ReconSpec == ReconInit /\ [][ReconNext]_vars

\* ValSpec explores sequences of validations on one validator.
ValInit ==
    /\ ConnInit
    /\ max_reconnect_attempts = MaxAttempts
    /\ session_budget = 0
    /\ message_budget = 0
    /\ check_budget = 0
    /\ ReconInit0
    /\ EngineInit0
    /\ BotInit0
    /\ ValidatorNew
    /\ val_budget = MaxValidations
    /\ PipelineInit0

\* The records ValSpec submits: every check of a trade can fail, and an order
\* book can be empty, have a level out of range, or be good.
SomeTrades == {trade \in Trades : trade.price \in {"", "5"} /\ trade.quantity \in {"0", "5"}}
SomeOrderBooks ==
    {orderbook \in OrderBooks :
        /\ orderbook.bids \in {<<>>, << <<"5", "0">> >>, << <<"0", "5">> >>}
        /\ orderbook.asks \in {<<>>, << <<"5", "0">> >>}}

ValNext ==
    \/ \E trade \in SomeTrades : ValidateTrade(trade)
    \/ \E orderbook \in SomeOrderBooks : ValidateOrderBook(orderbook)

ValSpec == ValInit /\ [][ValNext]_vars

\* KindSpec applies one validation to every record, on a validator that has
\* accepted some trades before.
KindInit ==
    /\ ConnInit
    /\ max_reconnect_attempts = MaxAttempts
    /\ session_budget = 0
    /\ message_budget = 0
    /\ check_budget = 0
    /\ ReconInit0
    /\ EngineInit0
    /\ BotInit0
    /\ recent_trade_ids \in {ids \in SUBSET TradeIds : Cardinality(ids) <= max_trade_ids}
    /\ last_trade_timestamp \in (IF recent_trade_ids = {} THEN {0} ELSE 1..MaxTimestamp)
    /\ last_orderbook_timestamp = 0
    /\ total_validated = Cardinality(recent_trade_ids)
    /\ total_errors = 0
    /\ error_counts = [e \in ValidationErrorType |-> 0]
    /\ val_pending \in [type : {"trade"}, record : Trades]
                       \cup [type : {"orderbook"}, record : OrderBooks]
    /\ val_last = [type |-> "none"]
    /\ accepted_ids = <<>>
    /\ accepted_times = [type \in {"trade", "orderbook"} |-> {}]
    /\ val_budget = total_validated + 1
    /\ PipelineInit0

KindSpec == KindInit /\ [][ValidatePending]_vars

\* StoreSpec explores add_trade and add_orderbook on one Hot Store while the
\* clock advances.
StoreInit ==
    /\ ConnInit
    /\ max_reconnect_attempts = MaxAttempts
    /\ session_budget = 0
    /\ message_budget = 0
    /\ check_budget = 0
    /\ ReconInit0
    /\ EngineInit0
    /\ BotInit0
    /\ ValidatorInit0
    /\ PipelineNew
    /\ store_budget = MaxAdds
    /\ msm_budget = 0

StoreNext ==
    \/ \E trade \in NormalizedTrades : AddTrade(trade)
    \/ \E orderbook \in NormalizedOrderBooks : AddOrderbook(orderbook)
    \/ TickClock

StoreSpec == StoreInit /\ [][StoreNext]_vars

\* BookSpec passes one order book through _process_orderbook.  A level is
\* [price, quantity] with a price of 5, of 7 or of 0, so that the best bid can
\* lie below, at or above the best ask.
BookLevels == {<<"5", "5">>, <<"7", "5">>, <<"0", "5">>}
BookLevelLists == UNION {[1..n -> BookLevels] : n \in 0..(CheckDepth + 1)}
BookOrderBooks == [bids : BookLevelLists, asks : BookLevelLists, event_time : Timestamps,
                   symbol : Symbols]

BookInit ==
    /\ ConnInit
    /\ max_reconnect_attempts = MaxAttempts
    /\ session_budget = 0
    /\ message_budget = 0
    /\ check_budget = 0
    /\ ReconInit0
    /\ EngineInit0
    /\ BotInit0
    /\ recent_trade_ids = {}
    /\ last_trade_timestamp = 0
    /\ last_orderbook_timestamp = 0
    /\ total_validated = 0
    /\ total_errors = 0
    /\ error_counts = [e \in ValidationErrorType |-> 0]
    /\ val_pending \in [type : {"orderbook"}, record : BookOrderBooks]
    /\ val_last = [type |-> "none"]
    /\ accepted_ids = <<>>
    /\ accepted_times = [type \in {"trade", "orderbook"} |-> {}]
    /\ val_budget = 1
    /\ PipelineInit0

BookSpec == BookInit /\ [][ProcessPendingOrderbook]_vars

\* EngineSpec explores the signal engine: trades arrive while the clock
\* advances, and order books are evaluated.
EngineTrades ==
    [trade_time : 0..MaxNow, price : {"5", "7"}, quantity : {"5", "7"}]
EngineSides ==
    {<< <<"5", "0">> >>, << <<"5", "5">> >>, << <<"5", "7">>, <<"5", "7">> >>}
EngineOrderBooks == [bids : EngineSides, asks : EngineSides]

EngineInit ==
    /\ ConnInit
    /\ max_reconnect_attempts = MaxAttempts
    /\ session_budget = 0
    /\ message_budget = 0
    /\ check_budget = 0
    /\ ReconInit0
    /\ EngineNew
    /\ sig_budget = MaxEngineCalls
    /\ BotInit0
    /\ ValidatorInit0
    /\ PipelineInit0

EngineNext ==
    \/ \E trade \in EngineTrades : EngineUpdateTrade(trade)
    \/ \E orderbook \in EngineOrderBooks : EngineUpdateOrderbook(orderbook)
    \/ TickClock

EngineSpec == EngineInit /\ [][EngineNext]_vars

\* BotSpec explores either orchestrator: the pipeline calls on_state_update
\* with a trade or an order book and the market state updated from it, while
\* the reconciliation is started and stopped.
BotStates ==
    [last_price : {1000, 1006}, bid_ask_imbalance : {-80, 0, 80},
     price_momentum : {-3, 0, 3}]

BotInit ==
    /\ ConnInit
    /\ max_reconnect_attempts = MaxAttempts
    /\ session_budget = 0
    /\ message_budget = 0
    /\ check_budget = 0
    /\ ReconInit0
    /\ EngineInit0
    /\ BotNew
    /\ bot_version \in {"v1", "v2"}
    /\ bot_budget = MaxBotCalls
    /\ ValidatorInit0
    /\ PipelineInit0

BotNext ==
    \/ \E market \in BotStates :
          OnStateUpdate("trade", [timestamp |-> now, price |-> market.last_price,
                                  quantity |-> 1], market)
    \/ \E market \in BotStates :
          OnStateUpdate("orderbook", [imbalance |-> market.bid_ask_imbalance], market)
    \/ \E outcome \in FetchOutcomes, price \in {1000, 1003, 1006} :
          BotVerifyReturn(outcome, price)
    \/ ReconStart
    \/ ReconStop

BotSpec == BotInit /\ [][BotNext]_vars

\* PipeSpec explores the driver behind a connected connector, with the
\* health check and the reconciliation running beside the receive task.
PipeInit ==
    /\ ConnInit
    /\ max_reconnect_attempts = 1
    /\ session_budget = 2
    /\ message_budget = 2
    /\ check_budget = 1
    /\ ReconInit0
    /\ EngineInit0
    /\ BotInit0
    /\ ValidatorInit0
    /\ PipelineInit0

\* The frames PipeSpec delivers: trades with one id, so that the second is a
\* duplicate, and order books that are good, empty or untimely.
PipeTrades ==
    {trade \in SomeTrades : trade.aggregate_trade_id = 1 /\ trade.trade_time \in {0, 1}}
PipeOrderBooks ==
    {orderbook \in SomeOrderBooks :
        /\ orderbook.asks # <<>>
        /\ orderbook.bids \in {<<>>, << <<"5", "0">> >>}
        /\ orderbook.event_time \in {0, 1}
        /\ orderbook.symbol \in expected_symbols}

PipeNext ==
    \/ Start
    \/ StartConnectOK
    \/ StartConnectFailed
    \/ RecvLoopTop
    \/ \E kind \in {"bad_json", "no_stream"} : RecvMessage(kind, "ok")
    \/ \E trade \in PipeTrades : DriverRecvMessage("trade", trade)
    \/ \E orderbook \in PipeOrderBooks : DriverRecvMessage("orderbook", orderbook)
    \/ \E data_type \in {"trade", "orderbook"} : DriverRecvUntimed(data_type)
    \/ \E outcome \in HandlerOutcomes : DriverCallbackReturn(outcome)
    \/ HealthLoopTop
    \/ HealthCheck
    \/ RecvIdleWake
    \/ RecvConnectionClosed
    \/ \E p \in Tasks : ReconnectBegin(p)
    \/ \E p \in Tasks : BackoffWake(p)
    \/ \E p \in Tasks : ReconnectConnectOK(p)
    \/ \E p \in Tasks : ReconnectConnectFailed(p)
    \/ TickMessageAge
    \/ ReconStart
    \/ ReconWake
    \/ \E outcome \in FetchOutcomes : ReconFetchReturn(outcome, 1000)

PipeSpec == PipeInit /\ [][PipeNext]_vars

\* StateSpec explores the MarketStateManager on its own: a caller updates it
\* with accepted trades and order books, resets it and reads it while the
\* clock advances.
StateTrades ==
    {normalized_trade(trade) : trade \in
        [price : {"5", "7"}, quantity : {"5"}, trade_time : 1..MaxTimestamp,
         symbol : expected_symbols, aggregate_trade_id : {1}]}

StateOrderBooks ==
    {normalized_orderbook(orderbook) : orderbook \in
        [bids : {<< <<"5", "5">> >>, << <<"5", "7">> >>}, asks : {<< <<"7", "5">> >>},
         event_time : {1}, symbol : expected_symbols]}

StateInit ==
    /\ ConnInit
    /\ max_reconnect_attempts = MaxAttempts
    /\ session_budget = 0
    /\ message_budget = 0
    /\ check_budget = 0
    /\ ReconInit0
    /\ EngineInit0
    /\ BotInit0
    /\ ValidatorInit0
    /\ PipelineNew
    /\ store_budget = 0
    /\ msm_budget = MaxStateCalls

StateNext ==
    \/ \E trade \in StateTrades : UpdateFromTrade(trade)
    \/ \E orderbook \in StateOrderBooks : UpdateFromOrderbook(orderbook)
    \/ Reset
    \/ GetFeatures
    \/ GetCurrentState
    \/ TickClock

StateSpec == StateInit /\ [][StateNext]_vars

\* =================================================================== claims

\* The tasks exist, so the initial connection has succeeded.
WasConnected == pc["recv"] # "none"

\* C1: once the connector has been connected, it is in state failed only when
\* the reconnect budget is used up (reconnect_count has reached
\* max_reconnect_attempts); one failed attempt with budget left does not put
\* it in failed.
C1_FailedOnlyWhenBudgetExceeded ==
    (WasConnected /\ state = "failed") => reconnect_count >= max_reconnect_attempts

IsNonDecreasing(seq) == \A i \in 1..(Len(seq) - 1) : seq[i] <= seq[i + 1]

\* C2: the backoff delays slept since the last successful connect are
\* non-decreasing, each is at most max_backoff, and the first of them is
\* initial_backoff.
C2_BackoffMonotoneBoundedReset ==
    /\ IsNonDecreasing(delays)
    /\ \A i \in 1..Len(delays) : delays[i] <= max_backoff
    /\ (delays # <<>> => delays[1] = initial_backoff)

\* C3: while the connector runs, a failed reconnect attempt with budget
\* remaining is followed by another attempt (or by the connector being
\* connected or stopped).
C3_FailedAttemptIsRetried ==
    (WasConnected /\ running /\ state = "failed"
        /\ reconnect_count < max_reconnect_attempts)
    ~> (~running \/ state \in {"reconnecting", "connecting", "connected"})

TasksEnded == pc["recv"] = "done" /\ pc["health"] = "done"

\* C4: once the reconnect budget is exhausted the run loop exits: the receive
\* task and the health-check task terminate.
C4_ExhaustedBudgetEndsRunLoop == exhausted ~> TasksEnded

\* C5: after stop() has returned, the state is disconnected and no network
\* session is open, whatever the tasks were doing when stop() was called.
C5_StopLeavesConnectorClosed ==
    pc["stop"] = "returned" => (state = "disconnected" /\ open_sessions = {})

\* C7: when the health-check task wakes from its sleep, it forces a reconnect
\* (closes the session and enters _reconnect) if the connector is connected and
\* the last message is older than STALE_SEC, and otherwise changes nothing.
C7_HealthCheckReconnectsIffStale ==
    [][/\ (pc["health"] = "sleep" /\ pc'["health"] # "sleep") =>
            IF state = "connected" /\ msg_age > STALE_SEC
            THEN /\ pc'["health"] = "closing"
                 /\ websocket \notin open_sessions'
            ELSE /\ pc'["health"] = "top"
                 /\ UNCHANGED <<conn_vars, open_sessions, delays, exhausted>>
       /\ (pc["health"] = "closing" /\ pc'["health"] # "closing") =>
            \/ pc'["health"] = "backoff" /\ state' = "reconnecting"
            \/ reconnect_count >= max_reconnect_attempts /\ state' = "failed"
      ]_vars

C7_Witness ==
    /\ pc["health"] = "backoff"
    /\ state = "reconnecting"
    /\ msg_age > STALE_SEC

\* C8: a receive timeout changes neither the connection state, the session,
\* reconnect_count, current_backoff, error_count nor any message counter, and
\* the loop goes on to the next receive.
C8_TimeoutIsNoOp ==
    [][/\ (pc["recv"] = "recv" /\ last_recv' = "timeout") =>
            /\ pc'["recv"] = "top"
            /\ UNCHANGED <<conn_vars, open_sessions, stat_vars, handler_calls>>
       /\ (pc["recv"] = "top" /\ last_recv = "timeout" /\ pc'["recv"] # "top"
              /\ running /\ state = "connected" /\ uptime < SESSION_LIMIT_HALF_HOURS) =>
            /\ pc'["recv"] = "recv"
            /\ recv_on' = websocket
      ]_vars

C8_Witness == pc["recv"] = "top" /\ last_recv = "timeout" /\ state = "connected"

Malformed == {"bad_json", "no_stream", "no_data"}

C10_NoReceiveOnExpiredSession ==
    [][/\ (pc["recv"] # "recv" /\ pc'["recv"] = "recv") =>
            /\ uptime < SESSION_LIMIT_HALF_HOURS
            /\ recv_on' = websocket
       /\ (pc["recv"] = "top" /\ pc'["recv"] # "top" /\ running /\ state = "connected"
              /\ websocket # NoSession /\ uptime >= SESSION_LIMIT_HALF_HOURS) =>
            /\ pc'["recv"] = "closing"
            /\ websocket \notin open_sessions'
       /\ (websocket' # websocket) => (uptime' = 0 /\ state' = "connected")
      ]_vars

C10_Witness ==
    /\ pc["recv"] = "closing"
    /\ last_recv = "none"
    /\ uptime >= SESSION_LIMIT_HALF_HOURS

\* C6: once DataReconciliation.stop() has been called, no further integrity
\* check is made.
C6_NoCheckAfterStop ==
    [][rec_stopped => rec_calls' = rec_calls]_vars

\* C11: when a trade has just been accepted and the same trade (same id, same
\* fields, passing checks 1 to 4) is validated again in the next call, that
\* call rejects it with error type duplicate.
C11_ResubmittedTradeIsDuplicate ==
    [][(/\ val_last.type = "trade"
        /\ val_last.result = NoError
        /\ total_validated' = total_validated + 1
        /\ val_last'.type = "trade"
        /\ val_last'.id = val_last.id
        /\ val_last'.time = val_last.time
        /\ val_last'.pre \in {NoError, "duplicate"})
       => val_last'.result = "duplicate"
      ]_vars

\* C12: among any max_trade_ids consecutively accepted trades no id occurs
\* twice.
C12_NoIdAcceptedTwiceWithinHorizon ==
    \A i, j \in 1..Len(accepted_ids) :
        (i < j /\ j - i < max_trade_ids) => accepted_ids[i] # accepted_ids[j]

\* C13: the dedup set never holds more than max_trade_ids ids.
C13_DedupSetBounded == Cardinality(recent_trade_ids) <= max_trade_ids

C13_Witness ==
    /\ Len(accepted_ids) > max_trade_ids
    /\ Cardinality(recent_trade_ids) = max_trade_ids

\* The error type of the first check that fails, for checks given in order as
\* pairs <<fails, error type>>.
FirstFailing(checks) ==
    LET bad == {i \in DOMAIN checks : checks[i][1]}
    IN IF bad = {} THEN NoError
       ELSE checks[CHOOSE i \in bad : \A j \in bad : i <= j][2]

Unparseable(text) == ~is_parseable(text)
TopLevels(levels) == SubSeq(levels, 1, Min(Len(levels), CheckDepth))
LevelUnparseable(level) == Unparseable(level[1]) \/ Unparseable(level[2])
LevelOutOfRange(level) ==
    /\ ~LevelUnparseable(level)
    /\ (float(level[1]) <= 0 \/ float(level[2]) < 0)
SomeLevel(levels, P(_)) == \E i \in DOMAIN levels : P(levels[i])

\* The checks on a trade, in the order stated.
TradeChecks(trade, ids) ==
    << <<Unparseable(trade.price) \/ Unparseable(trade.quantity), "null_value">>,
       <<is_parseable(trade.price) /\ float(trade.price) <= 0, "negative_price">>,
       <<is_parseable(trade.quantity) /\ float(trade.quantity) <= 0, "negative_quantity">>,
       <<trade.trade_time <= 0, "invalid_timestamp">>,
       <<trade.symbol \notin expected_symbols, "invalid_symbol">>,
       <<trade.aggregate_trade_id \in ids, "duplicate">> >>

\* The checks on an order book, in the order stated: fields parseable, range,
\* timestamp, symbol, sides non-empty.
BookChecksAsStated(orderbook) ==
    LET top == TopLevels(orderbook.bids) \o TopLevels(orderbook.asks)
    IN << <<SomeLevel(top, LevelUnparseable), "null_value">>,
          <<SomeLevel(top, LevelOutOfRange), "negative_price">>,
          <<orderbook.event_time <= 0, "invalid_timestamp">>,
          <<orderbook.symbol \notin expected_symbols, "invalid_symbol">>,
          <<orderbook.bids = <<>> \/ orderbook.asks = <<>>, "empty_orderbook">> >>

\* The checks on an order book, in the order of the code: sides non-empty,
\* timestamp, symbol, then the inspected levels one by one, bids before asks,
\* each for its text and then its range.
BookChecksInCodeOrder(orderbook) ==
    LET top == TopLevels(orderbook.bids) \o TopLevels(orderbook.asks)
    IN << <<orderbook.bids = <<>> \/ orderbook.asks = <<>>, "empty_orderbook">>,
          <<orderbook.event_time <= 0, "invalid_timestamp">>,
          <<orderbook.symbol \notin expected_symbols, "invalid_symbol">> >>
       \o [i \in 1..(2 * Len(top)) |->
             IF i % 2 = 1
             THEN <<LevelUnparseable(top[(i + 1) \div 2]), "null_value">>
             ELSE <<LevelOutOfRange(top[i \div 2]), "negative_price">>]

\* C14 as stated: the error type a validation reports is that of the first
\* failing check in the order parseable, range, timestamp, symbol, duplicate,
\* order-book sides non-empty.
C14_ErrorKindInStatedOrder ==
    [][(val_pending.type # "none" /\ total_validated' = total_validated + 1) =>
            val_last'.result =
                IF val_pending.type = "trade"
                THEN FirstFailing(TradeChecks(val_pending.record, recent_trade_ids))
                ELSE FirstFailing(BookChecksAsStated(val_pending.record))
      ]_vars

\* C14 amended: for a trade the order is parseable, price range, quantity
\* range, timestamp, symbol, duplicate; for an order book it is sides
\* non-empty, timestamp, symbol, then the inspected levels in order.
C14_ErrorKindInCodeOrder ==
    [][(val_pending.type # "none" /\ total_validated' = total_validated + 1) =>
            val_last'.result =
                IF val_pending.type = "trade"
                THEN FirstFailing(TradeChecks(val_pending.record, recent_trade_ids))
                ELSE FirstFailing(BookChecksInCodeOrder(val_pending.record))
      ]_vars

\* An order book with an empty side, timestamp 0 and an unexpected symbol
\* has been rejected as empty.
C14_Witness ==
    /\ val_pending.type = "orderbook"
    /\ val_pending.record.bids = <<>>
    /\ val_pending.record.event_time = 0
    /\ val_pending.record.symbol \notin expected_symbols
    /\ val_last.type = "orderbook"
    /\ val_last.result = "empty_orderbook"

\* C15: a record that passes every check is accepted even when its timestamp
\* is below the last accepted one, and the last accepted timestamp of each
\* type is the maximum over the accepted records of that type.
C15_LastTimestampIsMaxAccepted ==
    /\ last_trade_timestamp = SetMax(accepted_times["trade"] \cup {0})
    /\ last_orderbook_timestamp = SetMax(accepted_times["orderbook"] \cup {0})
    /\ (val_last.type # "none" /\ val_last.pre = NoError) => val_last.result = NoError

C15_Witness ==
    /\ val_last.type = "trade"
    /\ val_last.late
    /\ val_last.result = NoError
    /\ val_last.time < last_trade_timestamp
    /\ val_last.time \in accepted_times["trade"]

\* A validate_* call of this step returned a result.
Rejected == total_validated' = total_validated + 1 /\ val_last'.type # "none"
                /\ val_last'.result # NoError
Accepted == total_validated' = total_validated + 1 /\ val_last'.type # "none"
                /\ val_last'.result = NoError

C17_MessagesProcessedOneAtATime ==
    [][/\ cb_pending => pc["recv"] = "callback"
       /\ cb_pending => UNCHANGED <<validator_state, normalizer_vars, store_vars,
                                    market_state, cb_calls>>
       /\ total_validated' # total_validated => ~cb_pending
      ]_vars

\* The callback of the second message is running, after the health check
\* has closed the session and the reconciliation has made a check.
C17_Witness ==
    /\ cb_pending
    /\ cb_calls = 2
    /\ pc["health"] # "top"
    /\ rec_calls = 1

\* C18: a message that passes validation invokes the callback once, in the
\* step that has stored the record and updated the MarketState, with that
\* record and with the updated state; nothing else invokes the callback.
C18_CallbackAfterStoreAndState ==
    [][/\ Accepted =>
            /\ cb_calls' = cb_calls + 1
            /\ cb_arg'.state = market_state'
            /\ IF val_last'.type = "trade"
               THEN /\ cb_arg'.data_type = "trade"
                    /\ latest_trade' = cb_arg'.data
                    /\ trades'[Len(trades')] = cb_arg'.data
                    /\ total_trades_stored' = total_trades_stored + 1
                    /\ cb_arg'.state.trade_count = market_state.trade_count + 1
                    /\ cb_arg'.state.last_price = cb_arg'.data.price
                    /\ cb_arg'.state.last_trade_timestamp = val_last'.time
               ELSE /\ cb_arg'.data_type = "orderbook"
                    /\ latest_orderbook' = cb_arg'.data
                    /\ orderbooks'[Len(orderbooks')] = cb_arg'.data
                    /\ total_orderbooks_stored' = total_orderbooks_stored + 1
                    /\ cb_arg'.state.orderbook_count = market_state.orderbook_count + 1
                    /\ cb_arg'.state.best_bid = cb_arg'.data.best_bid
                    /\ cb_arg'.state.last_orderbook_timestamp = val_last'.time
       /\ cb_calls' # cb_calls => Accepted
      ]_vars

C18_Witness ==
    /\ cb_calls = 2
    /\ cb_arg.data_type = "orderbook"
    /\ cb_arg.state.trade_count = 1
    /\ cb_arg.state.orderbook_count = 1
    /\ cb_arg.state.best_bid = 5

\* The connector goes on as before: same running flag, same connection
\* state and session, the receive task back at the head of its loop.
ReceiveLoopGoesOn ==
    /\ UNCHANGED <<running, state, websocket, open_sessions>>
    /\ pc'["recv"] = "top"
    /\ pc'["health"] = pc["health"]
    /\ pc'["start"] = pc["start"]

\* C19: a decode error, a validation error, an exception of a pipeline stage
\* or of the callback leaves the connector running in the same connection
\* state with the receive task at the head of its loop; a reconciliation
\* fetch that fails or finds a mismatch changes nothing of the connector and
\* the reconciliation loop sleeps again.
C19_RecoverableErrorsAreAbsorbed ==
    [][/\ (pc["recv"] = "recv" /\ last_recv' = "bad_json") => ReceiveLoopGoesOn
       /\ Rejected => ReceiveLoopGoesOn
       /\ (total_validated' # total_validated /\ cb_last' = "stage_raise") => ReceiveLoopGoesOn
       /\ (cb_pending /\ ~cb_pending' /\ cb_last' = "raise") => ReceiveLoopGoesOn
       /\ (rec_pc = "fetch" /\ rec_pc' # "fetch") =>
              (rec_pc' = "sleep" /\ UNCHANGED <<conn_vars, pc, open_sessions>>)
      ]_vars

\* After a rejected message, the callback of the next message raised, and
\* the receive task waits for a third frame on the same session.
C19_Witness ==
    /\ validation_errors = 1
    /\ cb_last = "raise"
    /\ total_messages = 2
    /\ pc["recv"] = "recv"
    /\ state = "connected"
    /\ running

\* C20: after k add_trade calls on a store of capacity max_trades the ring
\* buffer holds the last min(k, max_trades) trades inserted, in insertion
\* order.
C20_RingHoldsMostRecent ==
    LET k == Len(inserted_trades)
        n == Min(k, max_trades)
    IN /\ total_trades_stored = k
       /\ trades = SubSeq(inserted_trades, k - n + 1, k)

C20_Witness ==
    /\ Len(inserted_trades) = max_trades + 1
    /\ Len(trades) = max_trades
    /\ trades[1] = inserted_trades[2]
    /\ inserted_trades[1] # inserted_trades[2]

\* The records of a ring buffer or of a time index.
RingRecords(ring) == {ring[i] : i \in 1..Len(ring)}
IndexKeys(index) == DOMAIN index

\* C21: in every reachable state the ring buffer and the time index of each
\* record type hold no more records than the capacity of that type and no
\* record older than the TTL.
C21_StoreWithinCapacityAndTtl ==
    /\ Len(trades) <= max_trades
    /\ Cardinality(IndexKeys(trade_index)) <= max_trades
    /\ Len(orderbooks) <= max_orderbooks
    /\ Cardinality(IndexKeys(orderbook_index)) <= max_orderbooks
    /\ \A record \in RingRecords(trades) \cup RingRecords(orderbooks) :
           record.timestamp >= now - ttl
    /\ \A ts \in IndexKeys(trade_index) \cup IndexKeys(orderbook_index) :
           ts >= now - ttl

\* C22: right after every add_trade (add_orderbook) the trade (order-book)
\* index has no entry below now - ttl; a trade added with timestamp
\* now - ttl - 1 is absent from the index after the add and present in the
\* ring buffer.
C22_IndexPrunedOnAdd ==
    [][/\ total_trades_stored' = total_trades_stored + 1
          => /\ \A ts \in IndexKeys(trade_index') : ts >= now' - ttl
             /\ latest_trade'.timestamp = now' - ttl - 1
                  => /\ latest_trade'.timestamp \notin IndexKeys(trade_index')
                     /\ latest_trade' \in RingRecords(trades')
       /\ total_orderbooks_stored' = total_orderbooks_stored + 1
          => \A ts \in IndexKeys(orderbook_index') : ts >= now' - ttl]_vars

C22_Witness ==
    /\ total_trades_stored >= 2
    /\ latest_trade.timestamp = now - ttl - 1
    /\ latest_trade.timestamp \notin IndexKeys(trade_index)
    /\ IndexKeys(trade_index) # {}
    /\ trades[Len(trades)] = latest_trade
    /\ total_orderbooks_stored >= 1
    /\ IndexKeys(orderbook_index) = {}

\* The trades added so far that the TTL has not expired.
LiveTrades ==
    {i \in 1..Len(inserted_trades) : inserted_trades[i].timestamp >= now - ttl}

RECURSIVE SumLiveQuantity(_, _)
SumLiveQuantity(live, since) ==
    IF live = {} THEN 0
    ELSE LET i == CHOOSE j \in live : TRUE
         IN (IF inserted_trades[i].timestamp >= since
             THEN inserted_trades[i].quantity ELSE 0)
            + SumLiveQuantity(live \ {i}, since)

\* C23: every trade added and not yet expired is returned by
\* get_trades_since(t) for every t at or below its timestamp, trades of equal
\* timestamp included, and the volume of a window within the TTL is the sum
\* of the quantities of those trades.
C23_IndexKeepsEveryLiveTrade ==
    /\ \A i \in LiveTrades : \A t \in 0..inserted_trades[i].timestamp :
           inserted_trades[i] \in RingRecords(get_trades_since(t))
    /\ \A window \in 0..ttl :
           calculate_volume_in_window(window) = SumLiveQuantity(LiveTrades, now - window)

\* The order book just processed passed validation, so both of its sides are
\* non-empty.
BookAccepted ==
    /\ val_last.type = "orderbook"
    /\ val_last.result = NoError
    /\ latest_orderbook # NoRecord

\* C24: the normalized record of an order book that passes validation has
\* spread = best_ask - best_bid >= 0.
C24_SpreadNonNegative ==
    BookAccepted =>
        /\ latest_orderbook.spread = latest_orderbook.best_ask - latest_orderbook.best_bid
        /\ latest_orderbook.spread >= 0

\* The three conditions of the entry rule at the last evaluation: the two
\* history checks, and the bid share of the order book against the threshold.
VolumeSpikeHeld == check_volume_spike(sig_last.history, sig_last.time)
DirectionHeld(direction) == check_price_change(sig_last.history, sig_last.time) = direction
BidShareAtLeast(percent) ==
    /\ sig_last.bid_volume + sig_last.ask_volume > 0
    /\ sig_last.bid_volume * 100 >= percent * (sig_last.bid_volume + sig_last.ask_volume)
BidShareAtMost(percent) ==
    /\ sig_last.bid_volume + sig_last.ask_volume > 0
    /\ sig_last.bid_volume * 100 <= percent * (sig_last.bid_volume + sig_last.ask_volume)

\* C25: update_orderbook returns LONG exactly when the volume spike, the UP
\* direction and a bid share of at least the threshold all hold, SHORT exactly
\* when the volume spike, the DOWN direction and a bid share of at most
\* 1 - threshold all hold, and none otherwise; without the volume spike it
\* returns none.
C25_SignalIffAllConditions ==
    sig_last.type = "evaluated" =>
        /\ sig_last.signal = "LONG"
              <=> VolumeSpikeHeld /\ DirectionHeld("UP")
                  /\ BidShareAtLeast(imbalance_threshold)
        /\ sig_last.signal = "SHORT"
              <=> VolumeSpikeHeld /\ DirectionHeld("DOWN")
                  /\ BidShareAtMost(100 - imbalance_threshold)
        /\ sig_last.signal \in {"LONG", "SHORT", "none"}
        /\ ~VolumeSpikeHeld => sig_last.signal = "none"

\* The two other conditions hold and only the volume spike is missing.
C25_Witness ==
    /\ sig_last.type = "evaluated"
    /\ ~VolumeSpikeHeld
    /\ DirectionHeld("UP")
    /\ BidShareAtLeast(imbalance_threshold)
    /\ sig_last.signal = "none"

\* verify_before_order has just returned to _handle_entry_signal.
VerifyReturns == bot_pc = "verify" /\ bot_pc' = "idle"

\* C26: whenever the reference fetch fails, verify_before_order returns
\* (false, none) and the caller opens no position.
C26_FailedFetchOpensNoPosition ==
    [][VerifyReturns /\ verify_last'.outcome \in {"status", "timeout", "error"}
         => /\ verify_last'.result.type = "returned"
            /\ verify_last'.result.accepted = FALSE
            /\ verify_last'.result.reference = NoPrice
            /\ current_position' = "none"
            /\ bot_entries' = bot_entries]_vars

C26_Witness ==
    /\ verify_last # [type |-> "none"]
    /\ verify_last.outcome = "timeout"
    /\ bot_signal = "LONG"
    /\ rec_session = "open"
    /\ bot_pc = "idle"
    /\ current_position = "none"
    /\ bot_entries = 0

\* The divergence between the streamed and the reference price, relative to
\* the reference, exceeds 0.5 %.
DivergenceExceedsHalfPercent(streamed, reference) ==
    Abs(reference - streamed) * 200 > reference

C28_EntryOnlyAfterAcceptedVerify ==
    [][bot_entries' > bot_entries
         => /\ VerifyReturns
            /\ verify_last'.result.type = "returned"
            /\ verify_last'.result.accepted
            /\ verify_last'.ws_price = bot_state.last_price]_vars

\* The steps of the health-check task, of the reconciliation task and of the
\* driver, told by the position or the call count each of them advances.
HealthTaskStep == pc["health"] # "none" /\ pc'["health"] # pc["health"]
ReconTaskStep == rec_pc # "none" /\ (rec_pc' # rec_pc \/ rec_calls' # rec_calls)
DriverStep == handler_calls' # handler_calls \/ (cb_pending /\ ~cb_pending')

\* The data of the validator, the normalizer, the Hot Store and the state
\* manager.
pipeline_data == <<validator_state, normalizer_vars, store_vars, market_state>>

\* C29: no step of the health-check task or of the reconciliation task
\* changes the data of the Hot Store, the validator, the normalizer or the
\* market state; the reconciliation only reads the last observed price, and
\* that price is all the driver writes of the reconciliation, in one
\* assignment of the price of the trade.
C29_BackgroundTasksLeaveDataAlone ==
    [][/\ HealthTaskStep \/ ReconTaskStep => UNCHANGED pipeline_data
       /\ ReconTaskStep => UNCHANGED <<last_ws_price, driver_vars, callback_vars>>
       /\ DriverStep
            => /\ UNCHANGED <<rec_session, rec_pc, total_checks, mismatch_count,
                              last_rest_price>>
               /\ last_ws_price' # last_ws_price
                    => /\ cb_arg'.data_type = "trade"
                       /\ last_ws_price' = cb_arg'.data.price]_vars

C29_Witness ==
    /\ total_trades_stored >= 1
    /\ total_validated >= 2
    /\ last_ws_price # NoPrice
    /\ total_checks >= 1
    /\ pc["health"] = "backoff"

\* C30: a validation call that rejects a record leaves the dedup set and both
\* last-accepted timestamps unchanged and adds one to total_validated, to
\* total_errors and to the counter of the reported error kind alone; a call
\* that accepts a record changes no error counter.
C30_RejectionTouchesCountersOnly ==
    [][val_last' # val_last \/ total_validated' # total_validated
         => /\ total_validated' = total_validated + 1
            /\ IF val_last'.result # NoError
               THEN /\ UNCHANGED <<recent_trade_ids, last_trade_timestamp,
                                   last_orderbook_timestamp>>
                    /\ total_errors' = total_errors + 1
                    /\ val_last'.result \in ValidationErrorType
                    /\ error_counts' =
                           [error_counts EXCEPT ![val_last'.result] = @ + 1]
               ELSE UNCHANGED <<total_errors, error_counts>>]_vars

C30_Witness ==
    /\ val_last.type = "trade"
    /\ val_last.result = "invalid_symbol"
    /\ val_last.id \notin recent_trade_ids
    /\ recent_trade_ids # {}
    /\ last_trade_timestamp > 0
    /\ total_validated = Cardinality(recent_trade_ids) + 1
    /\ total_errors = 1
    /\ error_counts["invalid_symbol"] = 1
    /\ error_counts["duplicate"] = 0

\* C40: in every connector state the frames received are at least the trade
\* and depth frames counted, and the trade and depth counters together equal
\* the number of handler invocations made so far.
C40_CountersMatchHandlerCalls ==
    /\ total_messages >= trade_count + orderbook_count
    /\ trade_count + orderbook_count = handler_calls

C40_Witness ==
    /\ trade_count + orderbook_count >= 1
    /\ handler_calls >= 1
    /\ total_messages > trade_count + orderbook_count
    /\ error_count >= 1

\* The task is inside _trigger_reconnect / _reconnect: closing the old session,
\* sleeping the backoff or waiting for the new connection.
InReconnect(p) == pc[p] \in {"closing", "backoff", "connecting"}

\* C34: the health-check task and the receive task are never both inside the
\* reconnect procedure, and at most one network session is open at a time.
C34_OneReconnectAtATime ==
    /\ ~(InReconnect("recv") /\ InReconnect("health"))
    /\ Cardinality(open_sessions) <= 1

\* C35: whenever start() has returned, the connector is stopped: running is
\* false, the state is disconnected and no network session is open.
C35_StartReturnsStopped ==
    pc["start"] = "returned"
        => (~running /\ state = "disconnected" /\ open_sessions = {})

\* No message is inside the driver: the receive task is not in an awaited
\* callback.
BetweenMessages == ~cb_pending

\* C36: between messages every message handed to the driver is accounted for
\* exactly once: the processed and rejected counters of the driver add up to
\* the validator's total_validated, and the driver's validation_errors equals
\* the validator's total_errors.
C36_EveryMessageAccountedOnce ==
    BetweenMessages =>
        /\ processed_trades + processed_orderbooks + validation_errors = total_validated
        /\ validation_errors = total_errors

\* The fields of MarketState that come from the order book, and those that
\* come from the trades.
BookFields(market) ==
    <<market.best_bid, market.best_ask, market.mid_price, market.spread,
      market.spread_bps, market.total_bid_volume, market.total_ask_volume,
      market.bid_ask_ratio, market.bid_ask_imbalance>>
TradeFields(market) ==
    <<market.last_price, market.recent_volume_1m, market.recent_volume_5m,
      market.vwap_1m, market.price_momentum, market.volume_spike,
      market.large_trade_count, market.trade_count>>
RecordBookFields(orderbook) ==
    <<orderbook.best_bid, orderbook.best_ask, orderbook.mid_price, orderbook.spread,
      orderbook.spread_bps, orderbook.total_bid_volume, orderbook.total_ask_volume,
      orderbook.bid_ask_ratio, orderbook.imbalance>>

\* The step is a call of update_from_trade ("trade"), update_from_orderbook
\* ("orderbook") or reset ("reset"): a call that hands out nothing.
ManagerStep(op) == msm_calls' # msm_calls /\ held' = held /\ msm_last'.op = op

\* C31: update_from_orderbook sets the book-derived fields of MarketState to
\* exactly the values of the normalized record and leaves every trade-derived
\* field unchanged; update_from_trade leaves every book-derived field
\* unchanged.
C31_UpdatesKeepToTheirFields ==
    [][/\ ManagerStep("orderbook")
            => /\ BookFields(market_state') = RecordBookFields(msm_last'.record)
               /\ TradeFields(market_state') = TradeFields(market_state)
               /\ market_state'.orderbook_count = market_state.orderbook_count + 1
       /\ ManagerStep("trade")
            => /\ BookFields(market_state') = BookFields(market_state)
               /\ market_state'.orderbook_count = market_state.orderbook_count]_vars

C31_Witness ==
    /\ msm_last.op = "orderbook"
    /\ market_state.trade_count >= 2
    /\ market_state.price_momentum[1] # 0
    /\ market_state.timestamp > market_state.last_trade_timestamp + MomentumWindow
    /\ market_state.mid_price = ratio(12, 2)
    /\ market_state.bid_ask_imbalance = ratio(2, 12)

\* Two quotients are the same number.
same_ratio(a, b) == a[1] * b[2] = b[1] * a[2]

\* (latest - earliest) / earliest over the trades of the window, in the order
\* they were observed, and 0 with fewer than two of them.
StatedMomentum(observed, time) ==
    LET in_window == recent_entries(observed, time, MomentumWindow)
    IN IF Len(in_window) < 2 THEN ZERO
       ELSE ratio(in_window[Len(in_window)].price - in_window[1].price,
                  in_window[1].price)

\* Five trades of quantity 1 at 100, 101, 102, 101, 100 with one timestamp.
FiveTrades ==
    [i \in 1..5 |-> [timestamp |-> 1, quantity |-> 1,
                     price |-> <<100, 101, 102, 101, 100>>[i]]]

\* C32: after every trade, price_momentum is (latest - earliest) / earliest
\* over the prices of all trades whose timestamp lies in the trailing momentum
\* window, and 0 when fewer than two trades lie in it, for any number of
\* trades in the window; five trades at 100, 101, 102, 101, 100 in one window
\* give momentum 0 and volume_1m 5.
C32_MomentumOverWholeWindow ==
    /\ msm_last.op = "trade"
        => same_ratio(market_state.price_momentum,
                      StatedMomentum(all_trades, market_state.timestamp))
    /\ same_ratio(price_momentum(FiveTrades, 1), ZERO)
    /\ volume_metrics(FiveTrades, 1).recent_volume_1m = 5

\* What the consumer reads through the object it holds.
HeldView == read_through(held)

\* C33: the value get_features returned is a stable snapshot: no later
\* update_from_trade, update_from_orderbook or reset changes what its holder
\* reads in it.
C33_FeaturesAreStableSnapshot ==
    [][(held.from = "get_features" /\ held'.serial = held.serial)
            => HeldView' = HeldView]_vars

C33_Witness ==
    /\ held.from = "get_features"
    /\ held.serial < msm_calls
    /\ msm_last.op \in {"trade", "reset"}
    /\ HeldView.trade_count >= 1
    /\ HeldView.trade_count # market_state.trade_count
    /\ HeldView.last_price # market_state.last_price

\* C37: between messages the Hot Store and the MarketStateManager agree on
\* what was accepted: trade_count equals total_trades_stored, orderbook_count
\* equals total_orderbooks_stored and, once a trade was accepted, last_price
\* is the price of the store's latest trade.
C37_StoreAndStateAgree ==
    BetweenMessages =>
        /\ market_state.trade_count = total_trades_stored
        /\ market_state.orderbook_count = total_orderbooks_stored
        /\ (total_trades_stored >= 1 => market_state.last_price = latest_trade.price)

C37_Witness ==
    /\ BetweenMessages
    /\ total_trades_stored = 1
    /\ total_orderbooks_stored = 1
    /\ market_state.last_price = 5
    /\ validation_errors + processed_trades + processed_orderbooks = 1

\* C38: the position moves only from none to LONG or SHORT and from LONG or
\* SHORT back to none: an entry happens only when the position is none, and
\* the position never changes directly between LONG and SHORT.
C38_PositionCycle ==
    [][/\ current_position' # current_position
            => \/ current_position = "none" /\ current_position' \in {"LONG", "SHORT"}
               \/ current_position \in {"LONG", "SHORT"} /\ current_position' = "none"
       /\ bot_entries' # bot_entries => current_position = "none"]_vars

C38_Witness ==
    /\ bot_version = "v1"
    /\ bot_entries = 2
    /\ current_position = "SHORT"
    /\ verify_last.result.accepted

\* The last n records of a ring buffer, in insertion order.
LastRecords(ring, n) == SubSeq(ring, Len(ring) - n + 1, Len(ring))

\* C39: get_recent_trades(n) and get_recent_orderbooks(n) return exactly the
\* last min(n, size) records of the ring buffer in insertion order for every
\* n >= 0, hence never more than n records and the empty list for n = 0.
C39_RecentReturnsLastN ==
    \A n \in 0..(StoreCapacity + 1) :
        /\ get_recent_trades(n) = LastRecords(trades, Min(n, Len(trades)))
        /\ get_recent_orderbooks(n) = LastRecords(orderbooks, Min(n, Len(orderbooks)))
        /\ Len(get_recent_trades(n)) <= n
        /\ Len(get_recent_orderbooks(n)) <= n

====
